---- MODULE Spec2Model ----
(***************************************************************************)
(* FantasiaDataPlaneAgent: the reliable delivery pipeline.                 *)
(*                                                                         *)
(*   SpecConn  the Connection State Manager (utils/connection_state.py)    *)
(*             called by several logical workers on one asyncio loop.      *)
(*   Spec      the Consumer Service (services/redis_consumer.py) on top of *)
(*             the Queue Client (services/redis_client.py) and the broker. *)
(*                                                                         *)
(* A coroutine runs atomically between two awaits, so an action is the     *)
(* code from one suspension point to the next.                             *)
(***************************************************************************)
EXTENDS Integers, Sequences, FiniteSets, TLC

\* ------------------------------------------------------------------ bounds
MaxFailures == 4
MaxTime == 2
MaxMessages == 2
MaxN == 10
MaxCommands == 2
MaxExecutions == 2

\* --------------------------------------------------------------- constants
\* A threshold one too low
FailureThresholdOff == 3 - 1

FailureThreshold == 3
InitialDelay == 5
Multiplier == 2
MaxBackoff == 300
MaxBackoffLow == 60
RetryAttempts == 3
NoTime == 0

VARIABLES
  \* ConnectionStateManager fields
  is_connected, consecutive_failures, last_failure_time, last_success_time,
  circuit_open, circuit_open_time,
  \* asyncio.Lock: _locked and the FIFO of waiting acquirers
  lock_locked, lock_waiters,
  \* per caller: the operation in progress and where it is suspended
  call,
  \* the call that ran last and how it left off
  ret,
  \* time.time(), the effective level of logging.getLogger(__name__)
  now, log_level,
  \* the config object the manager was constructed with
  config,
  \* history: mark_failure calls begun / ended, a mark_success has run
  fail_started, fail_completed, any_success,
  \* per caller: the coroutine it runs on top of the manager (a request of
  \* ControlPlaneClient, the heartbeat loop) and where that stands
  task,
  \* broker lists
  source, processing, dead_letter,
  \* the broker is reachable
  broker_up,
  \* RedisConsumerService: _running, each task's suspension point, stop()
  running, pc, cancel_requested, stop_pc,
  \* per loop: the result of its last reliable_pop_message and what the
  \* iteration did with it
  iter,
  \* history: ids ever enqueued, ids accepted (2xx) by the remote authority,
  \* entries found in a processing queue at start(), entries moved since
  produced, accepted, stranded, moved_since_start,
  \* the keys of the broker's key-value cache ("executed_commands:<id>")
  cache,
  \* the Queue Client operation called last, the broker-communication error
  \* it hit and how it ended
  last_op,
  \* CommandProcessor: the command in hand, where _process_command stands,
  \* and how often each command was executed
  cmd,
  \* ControlPlaneClient: _jwt_keys_cache and _jwt_keys_cache_time
  jwt,
  \* HealthMetricsService.stop(): where it stands, notify_server_shutdown calls
  hm

conn_vars == <<is_connected, consecutive_failures, last_failure_time,
               last_success_time, circuit_open, circuit_open_time,
               lock_locked, lock_waiters, call, ret, now, log_level, config,
               fail_started, fail_completed, any_success, task>>

cons_vars == <<source, processing, dead_letter, broker_up, running, pc, cancel_requested, stop_pc, iter,
               produced, accepted, stranded, moved_since_start>>

svc_vars == <<cache, last_op, cmd, jwt, hm>>

vars == <<conn_vars, cons_vars, svc_vars>>

\* ===================================================================
\* Connection State Manager
\* ===================================================================
Workers == {"w1", "w2"}

LogLevels == {"DEBUG", "INFO", "WARNING", "ERROR"}

\* Logger.debug/info/warning(msg, **kwargs) of the standard library: a no-op
\* below the effective level, otherwise Logger._log() rejects the keyword
\* arguments with TypeError.
DebugEnabled == log_level = "DEBUG"
InfoEnabled == log_level \in {"DEBUG", "INFO"}
WarningEnabled == log_level \in {"DEBUG", "INFO", "WARNING"}

Min(a, b) == IF a <= b THEN a ELSE b

RECURSIVE Pow(_, _)
Pow(b, e) == IF e = 0 THEN 1 ELSE b * Pow(b, e - 1)

\* ApplicationConfig: none of its settings classes declares
\* control_plane_initial_error_delay, control_plane_error_backoff_multiplier
\* or control_plane_max_backoff, so reading one raises AttributeError.
ApplicationConfig ==
  [has_backoff |-> FALSE, control_plane_initial_error_delay |-> 0,
   control_plane_error_backoff_multiplier |-> 0,
   control_plane_max_backoff |-> 0]

\* A config object that carries the three settings (the tests' Mock)
MockConfig(cap) ==
  [has_backoff |-> TRUE, control_plane_initial_error_delay |-> InitialDelay,
   control_plane_error_backoff_multiplier |-> Multiplier,
   control_plane_max_backoff |-> cap]

\* get_backoff_delay, the value computed under the lock (lines 86-93)
BackoffDelay(n) ==
  IF n = 0 THEN 0
  ELSE Min(config.control_plane_initial_error_delay
             * Pow(config.control_plane_error_backoff_multiplier, n - 1),
           config.control_plane_max_backoff)

Idle == [op |-> "none", at |-> "idle"]

NoRet == [op |-> "none", outcome |-> "none", value |-> -1,
          was_circuit_open |-> FALSE]

\* op, how it ended, its value (-1: none; a bool as 0/1), and the local
\* was_circuit_open of line 36
Ret(op, outcome, value) ==
  [op |-> op, outcome |-> outcome, value |-> value,
   was_circuit_open |-> op = "mark_success" /\ circuit_open]

\* A caller that runs nothing on top of the manager; delay is the `delay`
\* of control_plane_client.py line 135 (0: none computed in this call);
\* half_open: the request was begun with the circuit open and the backoff
\* elapsed
NoTask ==
  [pc |-> "idle", purpose |-> "none", attempt |-> 0, http_calls |-> 0,
   last_http |-> "none", outcome |-> "none", clean |-> FALSE,
   registered |-> FALSE, delay |-> 0, half_open |-> FALSE]

ConnInit ==
  /\ task = [w \in Workers |-> NoTask]
  /\ is_connected = TRUE
  /\ consecutive_failures = 0
  /\ last_failure_time = NoTime
  /\ last_success_time = NoTime
  /\ circuit_open = FALSE
  /\ circuit_open_time = NoTime
  /\ lock_locked = FALSE
  /\ lock_waiters = <<>>
  /\ call = [w \in Workers |-> Idle]
  /\ ret = NoRet
  /\ now = 1
  /\ log_level \in LogLevels
  /\ fail_started = 0
  /\ fail_completed = 0
  /\ any_success = FALSE

\* Lock.acquire() returns without suspending only when the lock is free and
\* nobody waits for it.
LockFree == ~lock_locked /\ lock_waiters = <<>>

\* The call ends (return or exception): `async with` releases the lock.
Finish(w, q, r) ==
  /\ lock_locked' = FALSE
  /\ lock_waiters' = q
  /\ call' = [call EXCEPT ![w] = Idle]
  /\ ret' = r

\* `await self.get_backoff_delay()` with the lock held: the nested acquire
\* finds _locked set and suspends the caller behind the other waiters.
NestedAcquire(w, op, q) ==
  /\ lock_locked' = TRUE
  /\ lock_waiters' = Append(q, w)
  /\ call' = [call EXCEPT ![w] = [op |-> op, at |-> "wait_inner"]]
  /\ ret' = Ret(op, "suspended", -1)

\* The caller finds the lock taken and suspends in acquire().
Enqueue(w, op) ==
  /\ lock_waiters' = Append(lock_waiters, w)
  /\ call' = [call EXCEPT ![w] = [op |-> op, at |-> "wait_outer"]]
  /\ UNCHANGED <<lock_locked, ret, is_connected, consecutive_failures,
                 last_failure_time, last_success_time, circuit_open,
                 circuit_open_time, fail_completed>>

\* mark_success, lines 36-55, with the lock held; q is the waiter queue
MarkSuccessLocked(w, q) ==
  /\ is_connected' = TRUE
  /\ consecutive_failures' = 0
  /\ last_success_time' = now
  /\ circuit_open' = FALSE
  /\ circuit_open_time' = NoTime
  /\ UNCHANGED <<last_failure_time, fail_completed>>
  /\ Finish(w, q,
       Ret("mark_success",
           IF (circuit_open \/ consecutive_failures > 0) /\ InfoEnabled
             THEN "raised" ELSE "returned", -1))

\* An increment computed from a value read before other callers ran
MarkFailureLostUpdate(w, q) ==
  /\ is_connected' = FALSE
  /\ consecutive_failures' =
       IF consecutive_failures >= 1 /\ q # <<>>
         THEN consecutive_failures ELSE consecutive_failures + 1
  /\ last_failure_time' = now
  /\ UNCHANGED last_success_time
  /\ IF consecutive_failures + 1 >= FailureThreshold
       THEN /\ circuit_open' = TRUE
            /\ circuit_open_time' = now
            /\ IF ~circuit_open
                 THEN /\ NestedAcquire(w, "mark_failure", q)
                      /\ UNCHANGED fail_completed
                 ELSE /\ Finish(w, q, Ret("mark_failure", "returned", -1))
                      /\ fail_completed' = fail_completed + 1
       ELSE /\ UNCHANGED <<circuit_open, circuit_open_time>>
            /\ Finish(w, q, Ret("mark_failure",
                 IF DebugEnabled THEN "raised" ELSE "returned", -1))
            /\ fail_completed' = fail_completed + 1

\* mark_failure, lines 60-81, with the lock held
MarkFailureLocked(w, q) ==
  /\ is_connected' = FALSE
  /\ consecutive_failures' = consecutive_failures + 1
  /\ last_failure_time' = now
  /\ UNCHANGED last_success_time
  /\ IF consecutive_failures + 1 >= FailureThreshold
       THEN /\ circuit_open' = TRUE
            /\ circuit_open_time' = now
            /\ IF ~circuit_open
                 THEN /\ NestedAcquire(w, "mark_failure", q)
                      /\ UNCHANGED fail_completed
                 ELSE /\ Finish(w, q, Ret("mark_failure", "returned", -1))
                      /\ fail_completed' = fail_completed + 1
       ELSE /\ UNCHANGED <<circuit_open, circuit_open_time>>
            /\ Finish(w, q, Ret("mark_failure",
                 IF DebugEnabled THEN "raised" ELSE "returned", -1))
            /\ fail_completed' = fail_completed + 1

\* get_backoff_delay, lines 86-93, with the lock held
GetBackoffDelayLocked(w, q) ==
  /\ IF consecutive_failures # 0 /\ ~config.has_backoff
       THEN Finish(w, q, Ret("get_backoff_delay", "raised", -1))
       ELSE Finish(w, q, Ret("get_backoff_delay", "returned",
                            BackoffDelay(consecutive_failures)))
  /\ UNCHANGED <<is_connected, consecutive_failures, last_failure_time,
                 last_success_time, circuit_open, circuit_open_time,
                 fail_completed>>

\* should_attempt_request, lines 98-117, with the lock held
ShouldAttemptRequestLocked(w, q) ==
  /\ IF ~circuit_open
       THEN Finish(w, q, Ret("should_attempt_request", "returned", 1))
       ELSE IF circuit_open_time # NoTime /\ last_failure_time # NoTime
         THEN NestedAcquire(w, "should_attempt_request", q)
         ELSE Finish(w, q, Ret("should_attempt_request", "returned", 0))
  /\ UNCHANGED <<is_connected, consecutive_failures, last_failure_time,
                 last_success_time, circuit_open, circuit_open_time,
                 fail_completed>>

\* get_connection_info, lines 122-129: the dict display awaits
\* get_backoff_delay() with the lock held
GetConnectionInfoLocked(w, q) ==
  /\ NestedAcquire(w, "get_connection_info", q)
  /\ UNCHANGED <<is_connected, consecutive_failures, last_failure_time,
                 last_success_time, circuit_open, circuit_open_time,
                 fail_completed>>

\* is_healthy, lines 133-134
IsHealthyLocked(w, q) ==
  /\ Finish(w, q, Ret("is_healthy", "returned",
                      IF is_connected /\ ~circuit_open THEN 1 ELSE 0))
  /\ UNCHANGED <<is_connected, consecutive_failures, last_failure_time,
                 last_success_time, circuit_open, circuit_open_time,
                 fail_completed>>

Locked(w, op, q) ==
  CASE op = "mark_success" -> MarkSuccessLocked(w, q)
    [] op = "mark_failure" -> MarkFailureLocked(w, q)
    [] op = "get_backoff_delay" -> GetBackoffDelayLocked(w, q)
    [] op = "should_attempt_request" -> ShouldAttemptRequestLocked(w, q)
    [] op = "get_connection_info" -> GetConnectionInfoLocked(w, q)
    [] op = "is_healthy" -> IsHealthyLocked(w, q)

\* What should_attempt_request computes from the fields, lines 98-117
ShouldAttemptValue ==
  \/ ~circuit_open
  \/ /\ circuit_open_time # NoTime
     /\ last_failure_time # NoTime
     /\ now - circuit_open_time >= BackoffDelay(consecutive_failures)

\* A caller enters an operation: `async with self._lock`.
Enter(w, op) ==
  /\ call[w].at = "idle"
  /\ IF LockFree
       THEN Locked(w, op, lock_waiters)
       ELSE Enqueue(w, op)
  /\ UNCHANGED <<now, log_level, config, cons_vars, svc_vars>>

mark_success(w) ==
  /\ Enter(w, "mark_success")
  /\ any_success' = TRUE
  /\ UNCHANGED <<fail_started, task>>

mark_failure(w) ==
  /\ fail_started < MaxFailures
  /\ Enter(w, "mark_failure")
  /\ fail_started' = fail_started + 1
  /\ UNCHANGED <<any_success, task>>

get_backoff_delay(w) ==
  /\ Enter(w, "get_backoff_delay")
  /\ UNCHANGED <<any_success, fail_started, task>>

should_attempt_request(w) ==
  /\ Enter(w, "should_attempt_request")
  /\ UNCHANGED <<any_success, fail_started, task>>

get_connection_info(w) ==
  /\ Enter(w, "get_connection_info")
  /\ UNCHANGED <<any_success, fail_started, task>>

is_healthy(w) ==
  /\ Enter(w, "is_healthy")
  /\ UNCHANGED <<any_success, fail_started, task>>

\* The operation after its nested get_backoff_delay() returned (the inner
\* `async with` has released the lock): the rest of the body, then the outer
\* release of a lock that is no longer held, which raises RuntimeError.
AfterNested(w, q) ==
  /\ Finish(w, q, Ret(call[w].op, "raised", -1))
  /\ fail_completed' =
       IF call[w].op = "mark_failure" THEN fail_completed + 1
       ELSE fail_completed
  /\ UNCHANGED <<is_connected, consecutive_failures, last_failure_time,
                 last_success_time, circuit_open, circuit_open_time>>

\* Lock.release() woke the first waiter: it takes the lock and runs on.
ResumeLocked(w) ==
  /\ call[w].at \in {"wait_outer", "wait_inner"}
  /\ ~lock_locked
  /\ lock_waiters # <<>>
  /\ Head(lock_waiters) = w
  /\ IF call[w].at = "wait_outer"
       THEN Locked(w, call[w].op, Tail(lock_waiters))
       ELSE AfterNested(w, Tail(lock_waiters))
  /\ UNCHANGED <<now, log_level, config, any_success, fail_started,
                 cons_vars, svc_vars>>

Resume(w) == ResumeLocked(w) /\ UNCHANGED task

Without(q, w) == SelectSeq(q, LAMBDA x : x # w)

\* The caller's task is cancelled while it waits for the lock: CancelledError
\* leaves acquire(); an enclosing `async with` releases the lock it holds.
CancelWaiting(w) ==
  /\ call[w].at \in {"wait_outer", "wait_inner"}
  /\ lock_waiters' = Without(lock_waiters, w)
  /\ lock_locked' = IF call[w].at = "wait_inner" THEN FALSE ELSE lock_locked
  /\ call' = [call EXCEPT ![w] = Idle]
  /\ ret' = Ret(call[w].op, "cancelled", -1)
  /\ UNCHANGED <<is_connected, consecutive_failures, last_failure_time,
                 last_success_time, circuit_open, circuit_open_time,
                 now, log_level, config, fail_started, fail_completed,
                 any_success, cons_vars, svc_vars>>

Cancel(w) == CancelWaiting(w) /\ UNCHANGED task

Tick ==
  /\ now < MaxTime
  /\ now' = now + 1
  /\ UNCHANGED <<is_connected, consecutive_failures, last_failure_time,
                 last_success_time, circuit_open, circuit_open_time,
                 lock_locked, lock_waiters, call, ret, log_level, config,
                 fail_started, fail_completed, any_success, task, cons_vars, svc_vars>>

ConnNext ==
  \/ \E w \in Workers :
       \/ mark_success(w)
       \/ mark_failure(w)
       \/ get_backoff_delay(w)
       \/ should_attempt_request(w)
       \/ get_connection_info(w)
       \/ is_healthy(w)
       \/ Resume(w)
       \/ Cancel(w)
  \/ Tick

\* ===================================================================
\* ControlPlaneClient._make_request and the heartbeat loop
\* ===================================================================
\* The task of HealthMetricsService._heartbeat_loop; the other caller issues
\* requests of its own (the command poller, a result report).
HeartbeatTask == "w1"

HttpKinds == {"2xx", "4xx", "5xx", "timeout"}

\* The awaits of a manager operation in _make_request (req_, retry_check,
\* get_delay) and in the heartbeat loop (hb_), by the operation awaited
CheckSites == {"req_check", "retry_check", "hb_top"}
SuccessSites == {"req_mark_success", "hb_reg_success", "hb_success"}
FailureSites == {"req_mark_failure", "hb_reg_failure", "hb_exc_failure",
                 "hb_rec_failure", "hb_rec_failure_again"}
DelaySites == {"get_delay", "hb_reg_delay", "hb_exc_delay", "hb_rec_delay"}
InfoSites == {"hb_info"}
Sites ==
  CheckSites \cup SuccessSites \cup FailureSites \cup DelaySites
    \cup InfoSites

OpAt(site) ==
  CASE site \in CheckSites -> "should_attempt_request"
    [] site \in SuccessSites -> "mark_success"
    [] site \in FailureSites -> "mark_failure"
    [] site \in DelaySites -> "get_backoff_delay"
    [] site \in InfoSites -> "get_connection_info"

\* The caller runs (it has not suspended since its last step): on the one
\* event loop nothing else runs until it awaits something that suspends.
Busy(v) == task[v].pc \in Sites /\ call[v].at = "idle"

\* The caller's _make_request has returned to fetch_jwt_public_keys, which
\* runs on to its return (lines 421-432), or to stop() of the heartbeat
\* service, which runs on to its gather() (health_metrics.py lines 124-140)
Storing(v) == task[v].pc \in {"jwt_store", "stop_cancel"}

Quiet(w) == \A v \in Workers \ {w} : ~Busy(v) /\ ~Storing(v)

\* The circuit is open and at least the current backoff delay has passed
\* since circuitOpenTime (should_attempt_request lines 101-104)
HalfOpen ==
  /\ circuit_open
  /\ config.has_backoff
  /\ now - circuit_open_time >= BackoffDelay(consecutive_failures)

\* _make_request is entered: the first await is line 82
BeginRequest(t, purpose) ==
  [t EXCEPT !.pc = "req_check", !.purpose = purpose, !.attempt = 0,
            !.http_calls = 0, !.last_http = "none", !.outcome = "none",
            !.clean = (consecutive_failures = 0), !.delay = 0,
            !.half_open = HalfOpen]

\* A faulty _register_server that sets _registered whatever the outcome
EndRequestAlwaysRegisters(t, outcome) ==
  CASE t.purpose = "register" ->
         [t EXCEPT !.outcome = outcome, !.registered = TRUE,
                   !.pc = IF outcome = "ok" THEN "hb_reg_success"
                          ELSE "hb_reg_failure"]
    [] t.purpose = "heartbeat" ->
         [t EXCEPT !.outcome = outcome,
                   !.pc = IF outcome = "ok" THEN "hb_success"
                          ELSE "hb_exc_failure"]
    [] OTHER -> [t EXCEPT !.outcome = outcome, !.pc = "idle"]

\* _make_request returns or raises: where its caller goes on.  register:
\* _register_server lines 172-179; heartbeat: lines 224 and 229-230.
EndRequest(t, outcome) ==
  CASE t.purpose = "register" ->
         IF outcome = "ok"
           THEN [t EXCEPT !.outcome = outcome, !.registered = TRUE,
                          !.pc = "hb_reg_success"]
           ELSE [t EXCEPT !.outcome = outcome, !.pc = "hb_reg_failure"]
    [] t.purpose = "heartbeat" ->
         [t EXCEPT !.outcome = outcome,
                   !.pc = IF outcome = "ok" THEN "hb_success"
                          ELSE "hb_exc_failure"]
    [] t.purpose = "jwt" ->
         [t EXCEPT !.outcome = outcome,
                   !.pc = IF outcome = "ok" THEN "jwt_store" ELSE "idle"]
    [] t.purpose = "shutdown" ->
         [t EXCEPT !.outcome = outcome, !.pc = "stop_cancel"]
    [] OTHER -> [t EXCEPT !.outcome = outcome, !.pc = "idle"]

\* run_in_executor(self._execute_sync_request, ...): one HTTP attempt
IssueRetriedHttp(t) ==
  [t EXCEPT !.pc = "http", !.http_calls = @ + 1, !.attempt = @ + 1]

IssueHttp(t) ==
  [t EXCEPT !.pc = "http", !.http_calls = @ + 1]

\* The code of _make_request after the manager call awaited at `site` ended
\* with result r (lines 82-84, 114-116, 120/127-139)
AfterRequestCall(t, site, r) ==
  CASE r.outcome = "raised" -> EndRequest(t, "error")
    [] site = "req_check" /\ r.outcome = "returned" ->
         IF r.value = 1 THEN IssueHttp(t) ELSE EndRequest(t, "circuit_open")
    [] site = "req_mark_success" /\ r.outcome = "returned" ->
         EndRequest(t, "ok")
    [] site = "req_mark_failure" /\ r.outcome = "returned" ->
         IF t.attempt < RetryAttempts - 1
           THEN [t EXCEPT !.pc = "retry_check"]
           ELSE EndRequest(t, "all_failed")
    [] site = "retry_check" /\ r.outcome = "returned" ->
         IF r.value = 1 THEN [t EXCEPT !.pc = "get_delay"]
         ELSE EndRequest(t, "all_failed")
    [] site = "get_delay" /\ r.outcome = "returned" ->
         [t EXCEPT !.pc = "sleep_retry", !.delay = r.value]

\* The code of _heartbeat_loop, _register_server and
\* _attempt_connection_recovery after the manager call awaited at `site`
\* ended with result r.  An exception inside the loop's `try` goes to the
\* handler of line 229; one raised in that handler ends the task.
AfterLoopCall(t, site, r) ==
  CASE site = "hb_top" ->
         IF r.outcome = "raised" THEN [t EXCEPT !.pc = "hb_exc_failure"]
         ELSE IF r.value = 0 THEN [t EXCEPT !.pc = "hb_info"]
         ELSE IF ~t.registered THEN BeginRequest(t, "register")
         ELSE [t EXCEPT !.pc = "hb_redis"]
    [] site = "hb_info" ->
         [t EXCEPT !.pc = IF r.outcome = "raised" THEN "hb_exc_failure"
                          ELSE "hb_rec_failure"]
    [] site = "hb_rec_failure" ->
         [t EXCEPT !.pc = IF r.outcome = "raised" THEN "hb_rec_failure_again"
                          ELSE "hb_rec_delay"]
    [] site = "hb_rec_failure_again" ->
         [t EXCEPT !.pc = IF r.outcome = "raised" THEN "hb_exc_failure"
                          ELSE "hb_rec_delay"]
    [] site = "hb_rec_delay" ->
         [t EXCEPT !.pc = IF r.outcome = "raised" THEN "hb_exc_failure"
                          ELSE "hb_sleep"]
    [] site = "hb_reg_success" ->
         [t EXCEPT !.pc = IF r.outcome = "raised" THEN "hb_reg_failure"
                          ELSE "hb_redis"]
    [] site = "hb_reg_failure" ->
         IF r.outcome = "raised" THEN [t EXCEPT !.pc = "hb_exc_failure"]
         ELSE [t EXCEPT !.registered = FALSE, !.pc = "hb_reg_delay"]
    [] site = "hb_reg_delay" ->
         [t EXCEPT !.pc = IF r.outcome = "raised" THEN "hb_exc_failure"
                          ELSE "hb_sleep"]
    [] site = "hb_success" ->
         [t EXCEPT !.pc = IF r.outcome = "raised" THEN "hb_exc_failure"
                          ELSE "hb_sleep"]
    [] site = "hb_exc_failure" ->
         [t EXCEPT !.pc = IF r.outcome = "raised" THEN "dead"
                          ELSE "hb_exc_delay"]
    [] site = "hb_exc_delay" ->
         [t EXCEPT !.pc = IF r.outcome = "raised" THEN "dead"
                          ELSE "hb_sleep"]

AfterCall(t, site, r) ==
  IF site \in {"req_check", "req_mark_success", "req_mark_failure",
               "retry_check", "get_delay"}
    THEN AfterRequestCall(t, site, r)
    ELSE AfterLoopCall(t, site, r)

\* The caller at a site when its manager call has run as far as it gets in
\* this step: it goes on, or it stays suspended in the call.
Continue(w) ==
  task' = [task EXCEPT ![w] =
             IF call'[w].at = "idle" THEN AfterCall(task[w], task[w].pc, ret')
             ELSE task[w]]

\* `await self.connection_state.<operation>()` at the caller's site
ManagerCall(w) ==
  /\ Busy(w)
  /\ Quiet(w)
  /\ OpAt(task[w].pc) = "mark_failure" => fail_started < MaxFailures
  /\ Enter(w, OpAt(task[w].pc))
  /\ fail_started' = IF OpAt(task[w].pc) = "mark_failure"
                       THEN fail_started + 1 ELSE fail_started
  /\ any_success' = (any_success \/ OpAt(task[w].pc) = "mark_success")
  /\ Continue(w)

\* The lock was released to the caller waiting for it
ClientResume(w) ==
  /\ Quiet(w)
  /\ ResumeLocked(w)
  /\ Continue(w)

\* A caller other than the heartbeat task calls _make_request
StartRequest(w) ==
  /\ w # HeartbeatTask
  /\ task[w].pc = "idle"
  /\ Quiet(w)
  /\ task' = [task EXCEPT ![w] = BeginRequest(task[w], "plain")]
  /\ UNCHANGED <<is_connected, consecutive_failures, last_failure_time,
                 last_success_time, circuit_open, circuit_open_time,
                 lock_locked, lock_waiters, call, ret, now, log_level, config,
                 fail_started, fail_completed, any_success, cons_vars, svc_vars>>

\* jwt_public_keys_cache_ttl (config.py line 101: 3600 s), on the scale of
\* the modelled time span so that an entry can expire within it
JwtTtl == MaxTime - 1

\* The test of lines 407-412
CacheFresh == jwt.cached /\ now - jwt.time < JwtTtl

\* A faulty fetch that does not look at the cache
FetchJwtKeysNoCache(w) ==
  /\ w # HeartbeatTask
  /\ task[w].pc = "idle"
  /\ Quiet(w)
  /\ task' = [task EXCEPT ![w] = BeginRequest(task[w], "jwt")]
  /\ UNCHANGED <<is_connected, consecutive_failures, last_failure_time,
                 last_success_time, circuit_open, circuit_open_time,
                 lock_locked, lock_waiters, call, ret, now, log_level, config,
                 fail_started, fail_completed, any_success, cons_vars, svc_vars>>

\* fetch_jwt_public_keys, lines 401-419: the cached keys are returned, or
\* _make_request is entered
FetchJwtKeys(w) ==
  /\ w # HeartbeatTask
  /\ task[w].pc = "idle"
  /\ Quiet(w)
  /\ task' = [task EXCEPT ![w] =
                IF CacheFresh
                  THEN [NoTask EXCEPT !.purpose = "jwt", !.outcome = "cached"]
                  ELSE BeginRequest(task[w], "jwt")]
  /\ UNCHANGED <<is_connected, consecutive_failures, last_failure_time,
                 last_success_time, circuit_open, circuit_open_time,
                 lock_locked, lock_waiters, call, ret, now, log_level, config,
                 fail_started, fail_completed, any_success, cons_vars, svc_vars>>

\* fetch_jwt_public_keys, lines 421-432: the result is cached and returned
JwtStore(w) ==
  /\ Storing(w)
  /\ jwt' = [cached |-> TRUE, time |-> now]
  /\ task' = [task EXCEPT ![w].pc = "idle"]
  /\ UNCHANGED <<is_connected, consecutive_failures, last_failure_time,
                 last_success_time, circuit_open, circuit_open_time,
                 lock_locked, lock_waiters, call, ret, now, log_level, config,
                 fail_started, fail_completed, any_success, cons_vars,
                 cache, last_op, cmd, hm>>

\* HealthMetricsService.start() created the heartbeat task and it runs to
\* its first await, line 185
HeartbeatLoopStarts ==
  /\ task[HeartbeatTask] = NoTask
  /\ Quiet(HeartbeatTask)
  /\ task' = [task EXCEPT ![HeartbeatTask] =
                [NoTask EXCEPT !.pc = "hb_top", !.purpose = "loop"]]
  /\ UNCHANGED <<is_connected, consecutive_failures, last_failure_time,
                 last_success_time, circuit_open, circuit_open_time,
                 lock_locked, lock_waiters, call, ret, now, log_level, config,
                 fail_started, fail_completed, any_success, cons_vars, svc_vars>>

\* A response that counts as a failure is one too many
HttpOutcomeNoClientError(t, kind) ==
  [t EXCEPT !.last_http = kind,
            !.pc = IF kind = "2xx" THEN "req_mark_success"
                   ELSE "req_mark_failure"]

\* The executor's request ended (lines 100-128): 2xx, raise_for_status()
\* raising for 4xx or 5xx, or the wait timing out
HttpOutcome(t, kind) ==
  CASE kind = "2xx" -> [t EXCEPT !.last_http = kind, !.pc = "req_mark_success"]
    [] kind = "4xx" -> EndRequest([t EXCEPT !.last_http = kind],
                                  "client_error")
    [] OTHER -> [t EXCEPT !.last_http = kind, !.pc = "req_mark_failure"]

HttpResponse(w) ==
  /\ task[w].pc = "http"
  /\ Quiet(w)
  /\ \E kind \in HttpKinds :
       task' = [task EXCEPT ![w] = HttpOutcome(task[w], kind)]
  /\ UNCHANGED <<is_connected, consecutive_failures, last_failure_time,
                 last_success_time, circuit_open, circuit_open_time,
                 lock_locked, lock_waiters, call, ret, now, log_level, config,
                 fail_started, fail_completed, any_success, cons_vars, svc_vars>>

\* asyncio.sleep(delay) of line 137 ended: the next attempt is issued
RetrySleepEnds(w) ==
  /\ task[w].pc = "sleep_retry"
  /\ Quiet(w)
  /\ task' = [task EXCEPT ![w] = IssueRetriedHttp(task[w])]
  /\ UNCHANGED <<is_connected, consecutive_failures, last_failure_time,
                 last_success_time, circuit_open, circuit_open_time,
                 lock_locked, lock_waiters, call, ret, now, log_level, config,
                 fail_started, fail_completed, any_success, cons_vars, svc_vars>>

\* The heartbeat loop's sleep ended (lines 192, 199, 225, 233): the next
\* iteration begins if `while self._running` holds, which stop() clears
HeartbeatSleepEnds ==
  /\ task[HeartbeatTask].pc = "hb_sleep"
  /\ Quiet(HeartbeatTask)
  /\ task' = [task EXCEPT ![HeartbeatTask].pc =
                IF hm.stop_pc = "idle" THEN "hb_top" ELSE "exited"]
  /\ UNCHANGED <<is_connected, consecutive_failures, last_failure_time,
                 last_success_time, circuit_open, circuit_open_time,
                 lock_locked, lock_waiters, call, ret, now, log_level, config,
                 fail_started, fail_completed, any_success, cons_vars, svc_vars>>

\* get_health_status() returned (health_check() issues no request: it reads
\* self._client, which the client never sets, and reports "unhealthy"), the
\* loop calls send_heartbeat
HealthStatusDone ==
  /\ task[HeartbeatTask].pc = "hb_redis"
  /\ Quiet(HeartbeatTask)
  /\ task' = [task EXCEPT ![HeartbeatTask] =
                BeginRequest(task[HeartbeatTask], "heartbeat")]
  /\ UNCHANGED <<is_connected, consecutive_failures, last_failure_time,
                 last_success_time, circuit_open, circuit_open_time,
                 lock_locked, lock_waiters, call, ret, now, log_level, config,
                 fail_started, fail_completed, any_success, cons_vars, svc_vars>>

\* task.cancel() (stop() of the owning service) reaches the task at the
\* await it is suspended in: the loop breaks, a request is abandoned
TaskCancelled(w) ==
  /\ Quiet(w)
  /\ task[w].pc \notin {"idle", "exited", "dead"}
  /\ ~Busy(w)
  /\ ~Storing(w)
  /\ IF call[w].at # "idle"
       THEN CancelWaiting(w)
       ELSE UNCHANGED <<is_connected, consecutive_failures,
                 last_failure_time, last_success_time, circuit_open,
                 circuit_open_time, lock_locked, lock_waiters, call, ret,
                 now, log_level, config, fail_started, fail_completed,
                 any_success, cons_vars, svc_vars>>
  /\ task' = [task EXCEPT ![w].pc = "exited", ![w].outcome =
                IF task[w].outcome = "none" THEN "cancelled" ELSE @]

ClientTick ==
  /\ \A v \in Workers : ~Busy(v) /\ ~Storing(v)
  /\ Tick

\* No failure is recorded for as long as the longest backoff delay
BackoffElapses ==
  /\ \A v \in Workers : ~Busy(v) /\ ~Storing(v)
  /\ circuit_open
  /\ config.has_backoff
  /\ now <= MaxTime
  /\ now' = now + config.control_plane_max_backoff
  /\ UNCHANGED <<is_connected, consecutive_failures, last_failure_time,
                 last_success_time, circuit_open, circuit_open_time,
                 lock_locked, lock_waiters, call, ret, log_level, config,
                 fail_started, fail_completed, any_success, task, cons_vars,
                 svc_vars>>

ClientNext ==
  \/ HeartbeatLoopStarts
  \/ HeartbeatSleepEnds
  \/ HealthStatusDone
  \/ ClientTick
  \/ \E w \in Workers :
       \/ StartRequest(w)
       \/ ManagerCall(w)
       \/ ClientResume(w)
       \/ HttpResponse(w)
       \/ RetrySleepEnds(w)
       \/ TaskCancelled(w)

\* The callers of ClientNext over a span of time longer than any backoff
ProbeNext ==
  \/ ClientNext
  \/ BackoffElapses

\* The coroutine that calls HealthMetricsService.stop()
Stopper == "w2"

\* stop(), lines 112-131: _running is cleared and, if the agent is
\* registered, notify_server_shutdown is called (its _make_request is
\* entered); otherwise stop() goes on to cancel the tasks and to gather()
HmStop ==
  /\ hm.stop_pc = "idle"
  /\ task[HeartbeatTask] # NoTask
  /\ task[Stopper].pc = "idle"
  /\ Quiet(Stopper)
  /\ IF task[HeartbeatTask].registered
       THEN /\ task' = [task EXCEPT ![Stopper] =
                         BeginRequest(task[Stopper], "shutdown")]
            /\ hm' = [stop_pc |-> "notifying",
                      notify_calls |-> hm.notify_calls + 1,
                      was_registered |-> TRUE]
       ELSE /\ hm' = [hm EXCEPT !.stop_pc = "gathering"]
            /\ UNCHANGED task
  /\ UNCHANGED <<is_connected, consecutive_failures, last_failure_time,
                 last_success_time, circuit_open, circuit_open_time,
                 lock_locked, lock_waiters, call, ret, now, log_level, config,
                 fail_started, fail_completed, any_success, cons_vars,
                 cache, last_op, cmd, jwt>>

\* notify_server_shutdown returned or raised (lines 122-131): stop() cancels
\* the tasks and awaits gather(), lines 133-141
HmStopCancels ==
  /\ task[Stopper].pc = "stop_cancel"
  /\ task' = [task EXCEPT ![Stopper].pc = "idle"]
  /\ hm' = [hm EXCEPT !.stop_pc = "gathering"]
  /\ UNCHANGED <<is_connected, consecutive_failures, last_failure_time,
                 last_success_time, circuit_open, circuit_open_time,
                 lock_locked, lock_waiters, call, ret, now, log_level, config,
                 fail_started, fail_completed, any_success, cons_vars,
                 cache, last_op, cmd, jwt>>

\* The CancelledError of line 134 reaches the heartbeat task
HmCancelDelivered ==
  /\ hm.stop_pc = "gathering"
  /\ TaskCancelled(HeartbeatTask)

\* gather() is done, lines 139-143
HmStopReturns ==
  /\ hm.stop_pc = "gathering"
  /\ task[HeartbeatTask].pc \in {"exited", "dead"}
  /\ hm' = [hm EXCEPT !.stop_pc = "stopped"]
  /\ UNCHANGED <<conn_vars, cons_vars, cache, last_op, cmd, jwt>>

\* The heartbeat loop and the coroutine that stops its service.  The lock is
\* never handed to a waiting caller here: a holder that is suspended inside
\* the lock gives it up only when cancelled, and stop() cancels the loop
\* only after its own request has ended.
ShutdownNext ==
  \/ HeartbeatLoopStarts
  \/ HeartbeatSleepEnds
  \/ HealthStatusDone
  \/ ClientTick
  \/ HmStop
  \/ HmStopCancels
  \/ HmCancelDelivered
  \/ HmStopReturns
  \/ \E w \in Workers :
       \/ ManagerCall(w)
       \/ HttpResponse(w)
       \/ RetrySleepEnds(w)

\* The heartbeat loop and a caller that fetches the JWT public keys
JwtNext ==
  \/ HeartbeatLoopStarts
  \/ HeartbeatSleepEnds
  \/ HealthStatusDone
  \/ ClientTick
  \/ \E w \in Workers :
       \/ FetchJwtKeys(w)
       \/ JwtStore(w)
       \/ ManagerCall(w)
       \/ ClientResume(w)
       \/ HttpResponse(w)
       \/ RetrySleepEnds(w)
       \/ TaskCancelled(w)

\* ===================================================================
\* Broker lists and the Queue Client
\* ===================================================================
Kinds == {"usage", "session", "quota"}

\* A list entry is a JSON text: the message it encodes and how it is
\* written. json.dumps() writes one form ("dumps": ", " and ": " separators);
\* a producer may write any other ("other").
Formats == {"dumps", "other"}
MessageIds == 1 .. MaxMessages
Entries == [id : MessageIds, fmt : Formats]

json_loads(e) == [id |-> e.id]
json_dumps(m) == [id |-> m.id, fmt |-> "dumps"]

Range(s) == {s[i] : i \in 1 .. Len(s)}
Ids(s) == {s[i].id : i \in 1 .. Len(s)}

\* LPUSH: at the head
LPush(list, e) == <<e>> \o list

RECURSIVE LRem(_, _)
\* LREM list 1 value: removes the first occurrence from the head, if any
LRem(list, e) ==
  IF list = <<>> THEN <<>>
  ELSE IF Head(list) = e THEN Tail(list)
  ELSE <<Head(list)>> \o LRem(Tail(list), e)

\* The tail (right end) of a list and the list without it
Last(list) == list[Len(list)]
ButLast(list) == SubSeq(list, 1, Len(list) - 1)

\* A faulty move: RPOP without the push onto the processing list
BrokerMoveDrop(k) ==
  /\ source' = [source EXCEPT ![k] = ButLast(source[k])]
  /\ UNCHANGED processing
  /\ moved_since_start' = moved_since_start \cup {Last(source[k])}

\* A faulty move that takes the entry pushed last (the head of the list)
BrokerMoveNewest(k) ==
  /\ source' = [source EXCEPT ![k] = Tail(source[k])]
  /\ processing' = [processing EXCEPT ![k] = LPush(processing[k], Head(source[k]))]
  /\ moved_since_start' = moved_since_start \cup {Head(source[k])}

\* BRPOPLPUSH source processing: one atomic command of the broker
BrokerMove(k) ==
  /\ source' = [source EXCEPT ![k] = ButLast(source[k])]
  /\ processing' = [processing EXCEPT ![k] = LPush(processing[k], Last(source[k]))]
  /\ moved_since_start' = moved_since_start \cup {Last(source[k])}

NoId == [q |-> "none"]

\* The message id of lines 178-182, "<source_queue>:<msg_counter>", kept in
\* msg_id:* keys that nothing else reads: only its queue is modelled.
MessageId(k) == [q |-> k]

\* Python values held by the loop's `result`
NoResult == [type |-> "none", message_id |-> NoId, data |-> [id |-> 0]]
TupleOf(mid, m) == [type |-> "tuple", message_id |-> mid, data |-> m]

\* `message_data.get("message_id", "unknown")`: only a dict has get()
HasGet(v) == v.type = "dict"

NoIter == [result |-> NoResult, raw |-> [id |-> 0, fmt |-> "dumps"],
           done |-> FALSE, handler_calls |-> 0, handler_result |-> "none",
           submit_calls |-> 0, ack_calls |-> 0, dlq_calls |-> 0,
           before |-> <<>>, token |-> "none", dlq_before |-> <<>>,
           error_info |-> "none"]

\* The payload fails the handler's model validation, e.g.
\* UsageRecord(**message_data) with a required field missing or with
\* response_timestamp < request_timestamp (the messages with an even id stand
\* for these); the handler raises before it calls the remote authority.
Malformed(d) == d.id % 2 = 0

\* The Dead-Letter Entry of move_to_dead_letter_queue, lines 231-236
DlqEntry(k, token, error_info) ==
  [original_message |-> json_loads(token), error_info |-> error_info,
   processing_queue |-> k]

ConsInit ==
  /\ source = [k \in Kinds |-> <<>>]
  /\ dead_letter = <<>>
  /\ \E left \in {<<>>} \cup {<<[id |-> 1, fmt |-> f]>> : f \in Formats} :
       /\ processing = [k \in Kinds |-> IF k = "usage" THEN left ELSE <<>>]
       /\ produced = Ids(left)
  /\ broker_up = TRUE
  /\ running = FALSE
  /\ pc = [k \in Kinds |-> "none"]
  /\ cancel_requested = [k \in Kinds |-> FALSE]
  /\ stop_pc = "idle"
  /\ iter = [k \in Kinds |-> NoIter]
  /\ accepted = {}
  /\ stranded = {}
  /\ moved_since_start = {}

\* ------------------------------------------------------------ environment
\* The external producer LPUSHes a new message onto a source queue.
Produce(k) ==
  /\ broker_up
  /\ \E i \in MessageIds \ produced, f \in Formats :
       /\ \A j \in MessageIds \ produced : i <= j
       /\ source' = [source EXCEPT ![k] = LPush(source[k], [id |-> i, fmt |-> f])]
       /\ produced' = produced \cup {i}
  /\ UNCHANGED <<conn_vars, svc_vars, processing, dead_letter, broker_up,
                 running, pc, cancel_requested, stop_pc, iter, accepted,
                 stranded, moved_since_start>>

BrokerFails ==
  /\ broker_up
  /\ broker_up' = FALSE
  /\ UNCHANGED <<conn_vars, svc_vars, source, processing, dead_letter, running, pc, cancel_requested, stop_pc, iter, produced,
                 accepted, stranded, moved_since_start>>

BrokerRecovers ==
  /\ ~broker_up
  /\ broker_up' = TRUE
  /\ UNCHANGED <<conn_vars, svc_vars, source, processing, dead_letter, running, pc, cancel_requested, stop_pc, iter, produced,
                 accepted, stranded, moved_since_start>>

\* ===================================================================
\* Consumer Service
\* ===================================================================
\* start(), lines 46-78. recover_processing_queues is no attribute of
\* RedisClient: line 59 raises AttributeError before anything is awaited,
\* line 65 catches it, and the three tasks are created.
Start ==
  /\ ~running
  /\ stop_pc = "idle"
  /\ running' = TRUE
  /\ pc' = [k \in Kinds |-> "created"]
  /\ stranded' = UNION {Range(processing[k]) : k \in Kinds}
  /\ moved_since_start' = {}
  /\ UNCHANGED <<conn_vars, svc_vars, source, processing, dead_letter, broker_up, cancel_requested, stop_pc, iter, produced,
                 accepted>>

\* A faulty stop() that leaves _running set
StopKeepsRunning ==
  /\ running
  /\ stop_pc = "idle"
  /\ cancel_requested' = [k \in Kinds |-> pc[k] \notin {"none", "exited"}]
  /\ stop_pc' = "gathering"
  /\ UNCHANGED <<conn_vars, svc_vars, source, processing, dead_letter, broker_up,
                 running, pc, iter, produced, accepted, stranded,
                 moved_since_start>>

\* stop(), lines 82-92, up to the await of gather()
Stop ==
  /\ running
  /\ stop_pc = "idle"
  /\ running' = FALSE
  /\ cancel_requested' = [k \in Kinds |-> pc[k] \notin {"none", "exited"}]
  /\ stop_pc' = "gathering"
  /\ UNCHANGED <<conn_vars, svc_vars, source, processing, dead_letter, broker_up, pc, iter, produced, accepted, stranded,
                 moved_since_start>>

\* gather() returns once every task is done, line 92-94
StopReturns ==
  /\ stop_pc = "gathering"
  /\ \A k \in Kinds : pc[k] = "exited"
  /\ stop_pc' = "stopped"
  /\ UNCHANGED <<conn_vars, svc_vars, source, processing, dead_letter, broker_up, running, pc, cancel_requested, iter, produced,
                 accepted, stranded, moved_since_start>>

\* `while self._running`, line 107
LoopTop == IF running THEN "ensure" ELSE "exited"

CanStep(k, at) == pc[k] = at /\ ~cancel_requested[k]

\* The task's first step: up to the ping of _ensure_connected
TaskBegins(k) ==
  /\ CanStep(k, "created")
  /\ pc' = [pc EXCEPT ![k] = LoopTop]
  /\ UNCHANGED <<conn_vars, svc_vars, source, processing, dead_letter, broker_up, running, cancel_requested, stop_pc, iter,
                 produced, accepted, stranded, moved_since_start>>

\* reliable_pop_message line 167: _ensure_connected. A broker error leaves
\* the call and is caught at line 146, which sleeps (line 152).
EnsureConnected(k) ==
  /\ CanStep(k, "ensure")
  /\ pc' = [pc EXCEPT ![k] = IF broker_up THEN "brpoplpush" ELSE "sleep"]
  /\ iter' = [iter EXCEPT ![k] = NoIter]
  /\ UNCHANGED <<conn_vars, svc_vars, source, processing, dead_letter, broker_up, running, cancel_requested, stop_pc, produced,
                 accepted, stranded, moved_since_start>>

\* reliable_pop_message lines 171-177: the blocking move returns an entry,
\* or nothing after the timeout, or fails
Brpoplpush(k) ==
  /\ CanStep(k, "brpoplpush")
  /\ IF ~broker_up
       THEN /\ pc' = [pc EXCEPT ![k] = "sleep"]
            /\ UNCHANGED <<source, processing, moved_since_start, iter>>
       ELSE IF source[k] = <<>>
         THEN /\ pc' = [pc EXCEPT ![k] = LoopTop]
              /\ UNCHANGED <<source, processing, moved_since_start, iter>>
         ELSE /\ BrokerMove(k)
              /\ pc' = [pc EXCEPT ![k] = "msgid"]
              /\ iter' = [iter EXCEPT ![k].raw = Last(source[k])]
  /\ UNCHANGED <<conn_vars, svc_vars, dead_letter, broker_up, running,
                 cancel_requested, stop_pc, produced, accepted, stranded>>

\* A faulty acknowledge: DEL of the processing list
AcknowledgeListsAll(k, token) ==
  /\ processing' = [processing EXCEPT ![k] = <<>>]
  /\ UNCHANGED dead_letter

\* acknowledge_message, line 205
AcknowledgeLists(k, token) ==
  /\ processing' = [processing EXCEPT ![k] = LRem(processing[k], token)]
  /\ UNCHANGED dead_letter

\* move_to_dead_letter_queue, lines 239-243
DeadLetterLists(k, token, error_info) ==
  /\ dead_letter' = LPush(dead_letter, DlqEntry(k, token, error_info))
  /\ processing' = [processing EXCEPT ![k] = LRem(processing[k], token)]

\* An error handler that also removes the reserved entry
LoopErrorDrops(k, res) ==
  /\ pc' = [pc EXCEPT ![k] = "sleep"]
  /\ iter' = [iter EXCEPT ![k].result = res, ![k].done = TRUE]
  /\ processing' = [processing EXCEPT ![k] = LRem(processing[k], iter[k].raw)]
  /\ UNCHANGED <<dead_letter, accepted>>

\* An error in the loop body reaches line 146: logged, then sleep(1);
\* res is what `result` holds by then
LoopError(k, res) ==
  /\ pc' = [pc EXCEPT ![k] = "sleep"]
  /\ iter' = [iter EXCEPT ![k].result = res, ![k].done = TRUE]
  /\ UNCHANGED <<processing, dead_letter, accepted>>

\* The loop body after the move, resumed at the await it is suspended in:
\*   msgid    reliable_pop_message lines 178-184 return (message_id, dict);
\*            line 115 binds the tuple to message_data and line 117 calls
\*            get() on it: AttributeError, outside the inner try
\*   handler  line 120 returns or raises
\*   ack      line 125 returns or raises (then line 138)
\*   dlq      line 138 returns or raises (then line 146)
ProcessMessage(k) ==
  /\ pc[k] \in {"msgid", "handler", "ack", "dlq"}
  /\ ~cancel_requested[k]
  /\ CASE pc[k] = "msgid" ->
            IF ~broker_up
              THEN LoopError(k, NoResult)
              ELSE LET res == TupleOf(MessageId(k), json_loads(iter[k].raw))
                   IN  IF HasGet(res)
                         THEN /\ pc' = [pc EXCEPT ![k] = "handler"]
                              /\ iter' = [iter EXCEPT ![k].result = res,
                                                      ![k].handler_calls = 1]
                              /\ UNCHANGED <<processing, dead_letter, accepted>>
                         ELSE LoopError(k, res)
       [] pc[k] = "handler" ->
            /\ \E ok \in IF Malformed(iter[k].result.data)
                         THEN {FALSE} ELSE BOOLEAN :
                 /\ pc' = [pc EXCEPT ![k] = IF ok THEN "ack" ELSE "dlq"]
                 /\ iter' = [iter EXCEPT
                      ![k].handler_result = IF ok THEN "ok" ELSE "error",
                      ![k].submit_calls =
                        IF Malformed(iter[k].result.data) THEN 0 ELSE 1,
                      ![k].ack_calls = IF ok THEN 1 ELSE 0,
                      ![k].dlq_calls = IF ok THEN 0 ELSE 1]
                 /\ accepted' = IF ok THEN accepted \cup {iter[k].result.data.id}
                                ELSE accepted
            /\ UNCHANGED <<processing, dead_letter>>
       [] pc[k] = "ack" ->
            /\ IF broker_up
                 THEN /\ AcknowledgeLists(k, json_dumps(iter[k].result.data))
                      /\ pc' = [pc EXCEPT ![k] = LoopTop]
                      /\ iter' = [iter EXCEPT ![k].done = TRUE]
                 ELSE /\ pc' = [pc EXCEPT ![k] = "dlq"]
                      /\ iter' = [iter EXCEPT ![k].dlq_calls = 1]
                      /\ UNCHANGED <<processing, dead_letter>>
            /\ UNCHANGED accepted
       [] pc[k] = "dlq" ->
            /\ IF broker_up
                 THEN /\ DeadLetterLists(k, json_dumps(iter[k].result.data), "error")
                      /\ pc' = [pc EXCEPT ![k] = LoopTop]
                      /\ iter' = [iter EXCEPT ![k].done = TRUE]
                      /\ UNCHANGED accepted
                 ELSE LoopError(k, iter[k].result)
  /\ UNCHANGED <<conn_vars, svc_vars, source, broker_up, running, cancel_requested, stop_pc,
                 produced, stranded, moved_since_start>>

\* asyncio.sleep(1) at line 152 is over
SleepEnds(k) ==
  /\ CanStep(k, "sleep")
  /\ pc' = [pc EXCEPT ![k] = LoopTop]
  /\ UNCHANGED <<conn_vars, svc_vars, source, processing, dead_letter, broker_up, running, cancel_requested, stop_pc, iter,
                 produced, accepted, stranded, moved_since_start>>

\* task.cancel() (line 89) takes effect at the await the task is suspended
\* in: CancelledError is no Exception, so lines 129 and 146 let it pass and
\* line 144 breaks out of the loop (from the sleep of line 152 it leaves the
\* coroutine). A BRPOPLPUSH already sent may or may not have been executed
\* by the broker.
DeliverCancel(k) ==
  /\ cancel_requested[k]
  /\ pc[k] \notin {"none", "exited"}
  /\ pc' = [pc EXCEPT ![k] = "exited"]
  /\ cancel_requested' = [cancel_requested EXCEPT ![k] = FALSE]
  /\ \/ UNCHANGED <<source, processing, moved_since_start>>
     \/ /\ pc[k] = "brpoplpush"
        /\ broker_up
        /\ source[k] # <<>>
        /\ BrokerMove(k)
  /\ UNCHANGED <<conn_vars, svc_vars, dead_letter, broker_up, running,
                 stop_pc, iter, produced, accepted, stranded>>

ConsNext ==
  \/ \E k \in Kinds :
       \/ Produce(k)
       \/ TaskBegins(k)
       \/ EnsureConnected(k)
       \/ Brpoplpush(k)
       \/ ProcessMessage(k)
       \/ SleepEnds(k)
       \/ DeliverCancel(k)
  \/ BrokerFails
  \/ BrokerRecovers
  \/ Start
  \/ Stop
  \/ StopReturns

\* ===================================================================
\* The cache operations of the Queue Client and the Command Processor
\* ===================================================================
CommandIds == 1 .. MaxCommands

NoOp == [op |-> "none", fault |-> "none", outcome |-> "none"]

\* A batch returned by poll_commands: distinct commands in some order
Batches ==
  {b \in UNION {[1 .. n -> CommandIds] : n \in 1 .. MaxCommands} :
     \A i, j \in 1 .. Len(b) : i # j => b[i] # b[j]}

\* CommandProcessor between poll cycles.  executions and skipped count over
\* all cycles; the other fields describe the current (or last) cycle: the
\* batch polled, what is left of it, whether an error ended the cycle at
\* line 85, and per command how often it was
\* executed and reported, how its execution ended and the `success` of the
\* CommandResult that was reported.
NoCmd ==
  [pc |-> "idle", id |-> 0, executions |-> [c \in CommandIds |-> 0],
   skipped |-> [c \in CommandIds |-> 0],
   polled |-> <<>>, batch |-> <<>>, aborted |-> FALSE,
   cycle_skipped |-> {},
   cycle_executions |-> [c \in CommandIds |-> 0],
   reports |-> [c \in CommandIds |-> 0],
   execution |-> [c \in CommandIds |-> "none"],
   result |-> "none",
   reported |-> [c \in CommandIds |-> "none"]]

NoJwt == [cached |-> FALSE, time |-> NoTime]

NoHm == [stop_pc |-> "idle", notify_calls |-> 0, was_registered |-> FALSE]

SvcInit ==
  /\ cache = {}
  /\ last_op = NoOp
  /\ cmd = NoCmd
  /\ jwt = NoJwt
  /\ hm = NoHm

\* Where a broker-communication error can hit an operation: at the ping of
\* _ensure_connected (lines 76-91: the ping fails and so does connect()), or
\* at the command the operation sends after a ping that was answered
Faults == {"ping", "command"}

QueueOps == {"reliable_pop_message", "acknowledge_message",
             "move_to_dead_letter_queue", "set_cache", "get_cache",
             "delete_cache", "get_queue_length"}

\* How the operation ends when it hits the error.  _ensure_connected is
\* called outside the operation's try; the handlers of get_queue_length
\* (lines 266-272) and get_cache (lines 321-327) return instead of raising.
ErrorOutcome(op, fault) ==
  IF fault = "ping" THEN "raised"
  ELSE CASE op = "get_queue_length" -> "returned_0"
         [] op = "get_cache" -> "returned_none"
         [] OTHER -> "raised"

\* get_cache(key), lines 312-327, seen by its caller: "raised", or the
\* value returned ("executed" or "none")
GetCache(key, fault) ==
  IF fault \in Faults
    THEN IF ErrorOutcome("get_cache", fault) = "raised" THEN "raised"
         ELSE "none"
    ELSE IF key \in cache THEN "executed" ELSE "none"

\* The errors an operation can hit now: the ping fails iff the broker is
\* down; a command can fail whenever it is sent (the broker went away after
\* the ping, the socket timed out)
FaultsNow == IF broker_up THEN {"none", "command"} ELSE {"ping"}

\* The for loop of _poll_commands after a command: the next one, or the
\* sleep of line 81 when the batch is done
AfterCommand(rest) == IF rest = <<>> THEN "idle" ELSE "batch"

\* poll_commands returned a batch (lines 72-77)
PollReturns(b) ==
  /\ cmd.pc = "idle"
  /\ \A i \in 1 .. Len(b) : cmd.executions[b[i]] < MaxExecutions
  /\ cmd' = [NoCmd EXCEPT !.pc = "batch", !.polled = b, !.batch = b,
                          !.executions = cmd.executions,
                          !.skipped = cmd.skipped]
  /\ UNCHANGED <<conn_vars, cons_vars, cache, last_op, jwt, hm>>

\* The cycle hands command c to _process_command, which runs up to its first
\* await past the cache lookup (lines 98-107).  An error raised by get_cache
\* leaves _process_command and the for loop and ends the cycle at line 85.
CommandDelivered(c) ==
  /\ cmd.pc = "batch"
  /\ cmd.batch # <<>>
  /\ c = Head(cmd.batch)
  /\ \E fault \in FaultsNow :
       /\ last_op' = [op |-> "get_cache", fault |-> fault,
                      outcome |-> IF fault = "none" THEN "returned"
                                  ELSE ErrorOutcome("get_cache", fault)]
       /\ cmd' = CASE GetCache(c, fault) = "raised" ->
                        [cmd EXCEPT !.pc = "idle", !.batch = <<>>,
                                    !.aborted = TRUE]
                   [] GetCache(c, fault) = "executed" ->
                        [cmd EXCEPT !.skipped[c] = 1,
                                    !.cycle_skipped = @ \cup {c},
                                    !.batch = Tail(@),
                                    !.pc = AfterCommand(Tail(cmd.batch))]
                   [] OTHER -> [cmd EXCEPT !.pc = "execute", !.id = c]
  /\ UNCHANGED <<conn_vars, cons_vars, cache, jwt, hm>>

\* _execute_command returned (lines 118-125) or raised (lines 134-148)
CommandExecuted ==
  /\ cmd.pc = "execute"
  /\ \E ok \in BOOLEAN :
       cmd' = [cmd EXCEPT !.executions[cmd.id] = @ + 1,
                          !.cycle_executions[cmd.id] = @ + 1,
                          !.execution[cmd.id] = IF ok THEN "ok" ELSE "error",
                          !.result = IF ok THEN "success" ELSE "failure",
                          !.pc = IF ok THEN "set_cache" ELSE "report"]
  /\ UNCHANGED <<conn_vars, cons_vars, cache, last_op, jwt, hm>>

\* set_cache(cache_key, "executed", ttl) of line 128 returned, or raised
\* inside the try of line 116: then line 134 replaces the success result by
\* a failure result.  The report of line 152 follows.
CommandCached ==
  /\ cmd.pc = "set_cache"
  /\ \E fault \in FaultsNow :
       /\ last_op' = [op |-> "set_cache", fault |-> fault,
                      outcome |-> IF fault = "none" THEN "returned"
                                  ELSE ErrorOutcome("set_cache", fault)]
       /\ cache' = IF fault = "none" THEN cache \cup {cmd.id} ELSE cache
       /\ cmd' = [cmd EXCEPT !.pc = "report",
                             !.result = IF fault = "none" THEN "success"
                                        ELSE "failure"]
  /\ UNCHANGED <<conn_vars, cons_vars, jwt, hm>>

\* report_command_result returned, or raised and lines 155-161 logged it
\* (lines 151-161); _process_command returns to the for loop
CommandReported ==
  /\ cmd.pc = "report"
  /\ \E sent \in BOOLEAN :
       cmd' = [cmd EXCEPT !.reports[cmd.id] = @ + 1,
                          !.reported[cmd.id] = cmd.result,
                          !.batch = Tail(@),
                          !.pc = AfterCommand(Tail(cmd.batch))]
  /\ UNCHANGED <<conn_vars, cons_vars, cache, last_op, jwt, hm>>

\* Any Queue Client operation called while the broker fails it
QueueClientFails(op) ==
  /\ \E fault \in FaultsNow \ {"none"} :
       last_op' = [op |-> op, fault |-> fault,
                   outcome |-> ErrorOutcome(op, fault)]
  /\ UNCHANGED <<conn_vars, cons_vars, cache, cmd, jwt, hm>>

CommandNext ==
  \/ \E b \in Batches : PollReturns(b)
  \/ \E c \in CommandIds : CommandDelivered(c)
  \/ CommandExecuted
  \/ CommandCached
  \/ CommandReported
  \/ \E op \in QueueOps : QueueClientFails(op)
  \/ BrokerFails
  \/ BrokerRecovers

\* ===================================================================
\* Specifications
\* ===================================================================
\* The consumer pipeline; LOG_LEVEL at its default (config.py line 125)
Init ==
  /\ ConsInit
  /\ SvcInit
  /\ ConnInit
  /\ log_level = "INFO"
  /\ config = ApplicationConfig

Next == ConsNext

Spec == Init /\ [][Next]_vars

\* The event loop runs a task that task.cancel() has made ready (the
\* CancelledError is thrown into it at its next turn) and resumes stop()
\* once gather() is done.
ConsFairness ==
  /\ \A k \in Kinds : WF_vars(DeliverCancel(k))
  /\ WF_vars(StopReturns)

SpecFair == Spec /\ ConsFairness

\* The Connection State Manager and its callers, under any log level
InitConn ==
  /\ ConnInit
  /\ config = MockConfig(MaxBackoff)
  /\ ConsInit
  /\ SvcInit
  /\ \A k \in Kinds : processing[k] = <<>>

SpecConn == InitConn /\ [][ConnNext]_vars

\* The heartbeat loop and another caller of _make_request on the shared
\* manager, built with the application's config or one with the settings,
\* logging at the default level
InitClient ==
  /\ ConnInit
  /\ log_level = "INFO"
  /\ ConsInit
  /\ SvcInit
  /\ \A k \in Kinds : processing[k] = <<>>
  /\ config \in {ApplicationConfig, MockConfig(MaxBackoff)}

SpecClient == InitClient /\ [][ClientNext]_vars

SpecJwt == InitClient /\ [][JwtNext]_vars

SpecProbe == InitClient /\ [][ProbeNext]_vars


\* The event loop resumes every task that is ready, a request sent to the
\* executor ends (with a response or by the timeout of line 108), sleeps
\* end and time passes, also when another task is running at the moments
\* they become ready (strong fairness).  Requests of other callers and
\* stop() are up to the environment.
ClientFairness ==
  /\ SF_vars(HeartbeatLoopStarts)
  /\ SF_vars(HeartbeatSleepEnds)
  /\ SF_vars(HealthStatusDone)
  /\ SF_vars(ClientTick)
  /\ \A w \in Workers :
       /\ SF_vars(ManagerCall(w))
       /\ SF_vars(ClientResume(w))
       /\ SF_vars(HttpResponse(w))
       /\ SF_vars(RetrySleepEnds(w))

SpecClientFair == SpecClient /\ ClientFairness

\* stop() of the heartbeat service is called at some moment; everything
\* that is ready runs, as in ClientFairness
ShutdownFairness ==
  /\ ClientFairness
  /\ SF_vars(HmStopCancels)
  /\ SF_vars(HmCancelDelivered)
  /\ SF_vars(HmStopReturns)

SpecShutdown == InitClient /\ [][ShutdownNext]_vars /\ ShutdownFairness

\* get_backoff_delay() on a manager that has counted n failures since its
\* last success (the third of them was cancelled out of its wait), built
\* with the application's config or with one that carries the settings.
InitBackoff ==
  /\ ConsInit
  /\ SvcInit
  /\ \A k \in Kinds : processing[k] = <<>>
  /\ \E n \in 0 .. MaxN :
       /\ consecutive_failures = n
       /\ is_connected = (n = 0)
       /\ last_failure_time = IF n = 0 THEN NoTime ELSE 1
       /\ circuit_open = (n >= FailureThreshold)
       /\ circuit_open_time = IF n >= FailureThreshold THEN 1 ELSE NoTime
       /\ fail_started = n
       /\ fail_completed = IF n >= FailureThreshold THEN n - 1 ELSE n
  /\ last_success_time = NoTime
  /\ lock_locked = FALSE
  /\ lock_waiters = <<>>
  /\ call = [w \in Workers |-> Idle]
  /\ ret = NoRet
  /\ now = 1
  /\ log_level \in LogLevels
  /\ any_success = FALSE
  /\ task = [w \in Workers |-> NoTask]
  /\ config \in {ApplicationConfig, MockConfig(MaxBackoff),
                 MockConfig(MaxBackoffLow)}

NextBackoff == \E w \in Workers : get_backoff_delay(w)

SpecBackoff == InitBackoff /\ [][NextBackoff]_vars

\* The Queue Client called directly: on each queue a caller pops an entry
\* and acknowledges it, or moves it to the dead-letter queue, right
\* afterwards, with the message id the pop returned, with json.dumps() of the payload it returned (as the consumer
\* does, redis_consumer.py lines 125-127), or with the entry's text as the
\* broker stores it.
TokenKinds == {"message_id", "dumps", "dumps_default", "text"}

\* The quota handler adds a default product_code to a payload that has none
\* (redis_consumer.py lines 366-367) before the loop serializes it for the
\* acknowledge: "dumps_default" is json.dumps() of such a payload
TokenKindsFor(k) ==
  IF k = "quota" THEN TokenKinds ELSE TokenKinds \ {"dumps_default"}

\* What the loops of the Consumer Service pass as token: json.dumps() of the
\* decoded payload as the handler left it (lines 125-127, 138-142, 239-241,
\* 252-256)
LoopTokenKinds == {"dumps", "dumps_default"}

TokenOf(k, kind) ==
  CASE kind = "message_id" -> iter[k].result.message_id
    [] kind = "dumps" -> json_dumps(iter[k].result.data)
    [] kind = "dumps_default" ->
         [id |-> iter[k].result.data.id, fmt |-> "dumps",
          product_code |-> "default"]
    [] kind = "text" -> iter[k].raw

\* reliable_pop_message, lines 160-184, on a queue that holds an entry
reliable_pop_message(k) ==
  /\ pc[k] \in {"none", "api_acked", "api_dead", "api_raised"}
  /\ broker_up
  /\ source[k] # <<>>
  /\ BrokerMove(k)
  /\ iter' = [iter EXCEPT ![k] =
       [NoIter EXCEPT
          !.result = TupleOf(MessageId(k), json_loads(Last(source[k]))),
          !.raw = Last(source[k]),
          !.before = processing[k]]]
  /\ pc' = [pc EXCEPT ![k] = "api_popped"]
  /\ UNCHANGED <<conn_vars, svc_vars, dead_letter, broker_up, running,
                 cancel_requested, stop_pc, produced, accepted, stranded>>

\* acknowledge_message, lines 195-209, called with the token of one kind
acknowledge_message(k, kind) ==
  /\ pc[k] = "api_popped"
  /\ broker_up
  /\ AcknowledgeLists(k, TokenOf(k, kind))
  /\ iter' = [iter EXCEPT ![k].token = kind, ![k].ack_calls = 1]
  /\ pc' = [pc EXCEPT ![k] = "api_acked"]
  /\ UNCHANGED <<conn_vars, svc_vars, source, broker_up, running, cancel_requested,
                 stop_pc, produced, accepted, stranded, moved_since_start>>

\* What a caller passes as errorInfo (str(e) of the error it caught)
ErrorInfos == {"validation failed", "request failed"}

\* json.loads(message_data) of line 232 fails on a token that is no JSON
\* text, such as the message id "<source_queue>:<counter>"
IsJson(kind) == kind # "message_id"

\* A faulty move that removes the token first and pushes nothing yet
MoveToDlqRemovesFirst(k, kind, error_info) ==
  /\ pc[k] = "api_popped"
  /\ broker_up
  /\ IF IsJson(kind)
       THEN /\ processing' = [processing EXCEPT ![k] =
                                LRem(processing[k], TokenOf(k, kind))]
            /\ pc' = [pc EXCEPT ![k] = "api_dlq_pushed"]
       ELSE /\ UNCHANGED processing
            /\ pc' = [pc EXCEPT ![k] = "api_raised"]
  /\ iter' = [iter EXCEPT ![k].token = kind, ![k].dlq_calls = 1,
                          ![k].dlq_before = dead_letter,
                          ![k].error_info = error_info]
  /\ UNCHANGED <<conn_vars, svc_vars, source, dead_letter, broker_up, running,
                 cancel_requested, stop_pc, produced, accepted, stranded,
                 moved_since_start>>

\* move_to_dead_letter_queue, lines 219-242, called with the token of one
\* kind: the Dead-Letter Entry is built and pushed (the call suspends in
\* the LPUSH of line 239), or json.loads raises and line 256 re-raises
MoveToDlqPush(k, kind, error_info) ==
  /\ pc[k] = "api_popped"
  /\ broker_up
  /\ IF IsJson(kind)
       THEN /\ dead_letter' = LPush(dead_letter,
                                    DlqEntry(k, TokenOf(k, kind), error_info))
            /\ pc' = [pc EXCEPT ![k] = "api_dlq_pushed"]
       ELSE /\ UNCHANGED dead_letter
            /\ pc' = [pc EXCEPT ![k] = "api_raised"]
  /\ iter' = [iter EXCEPT ![k].token = kind, ![k].dlq_calls = 1,
                          ![k].dlq_before = dead_letter,
                          ![k].error_info = error_info]
  /\ UNCHANGED <<conn_vars, svc_vars, source, processing, broker_up, running,
                 cancel_requested, stop_pc, produced, accepted, stranded,
                 moved_since_start>>

\* move_to_dead_letter_queue, line 243 to the return: the LREM
MoveToDlqRemove(k) ==
  /\ pc[k] = "api_dlq_pushed"
  /\ broker_up
  /\ processing' = [processing EXCEPT ![k] =
                      LRem(processing[k], TokenOf(k, iter[k].token))]
  /\ pc' = [pc EXCEPT ![k] = "api_dead"]
  /\ UNCHANGED <<conn_vars, svc_vars, source, dead_letter, broker_up, running,
                 cancel_requested, stop_pc, iter, produced, accepted, stranded,
                 moved_since_start>>

QueueNext ==
  \E k \in Kinds :
    \/ Produce(k)
    \/ reliable_pop_message(k)
    \/ \E kind \in TokenKindsFor(k) : acknowledge_message(k, kind)
    \/ \E kind \in TokenKindsFor(k), error_info \in ErrorInfos :
         MoveToDlqPush(k, kind, error_info)
    \/ MoveToDlqRemove(k)

InitQueue ==
  /\ ConsInit
  /\ SvcInit
  /\ ConnInit
  /\ log_level = "INFO"
  /\ config = ApplicationConfig

SpecQueue == InitQueue /\ [][QueueNext]_vars

\* The Command Processor on the broker's cache: commands are delivered and
\* redelivered by successive poll cycles while the broker comes and goes
InitCommand ==
  /\ ConsInit
  /\ SvcInit
  /\ ConnInit
  /\ log_level = "INFO"
  /\ config = ApplicationConfig
  /\ \A k \in Kinds : processing[k] = <<>>

SpecCommand == InitCommand /\ [][CommandNext]_vars

\* ===================================================================
\* Claims
\* ===================================================================
InSource(m) == \E k \in Kinds : m \in Ids(source[k])
InProcessing(m) == \E k \in Kinds : m \in Ids(processing[k])
InDeadLetter(m) ==
  \E i \in 1 .. Len(dead_letter) : dead_letter[i].original_message.id = m

\* The loop k reserved an entry in its current iteration
Reserved(k) == iter[k].raw.id # 0

\* C1: every message ever placed on a source queue is in its source queue,
\* in its processing queue or in the dead-letter queue, or the remote
\* authority accepted its submission.
C1_MessageConservation ==
  \A m \in produced :
    InSource(m) \/ InProcessing(m) \/ InDeadLetter(m) \/ m \in accepted

\* C1 witness: the service was stopped after a broker error, and a message a
\* loop reserved in this run is still held by the processing queue.
C1_Witness ==
  /\ stop_pc = "stopped"
  /\ \E k \in Kinds :
       /\ iter[k].done
       /\ iter[k].raw \in Range(processing[k]) \cap moved_since_start

\* C2 (as the claim has it): a reserved message is dispatched to its handler,
\* and when the handler completes without error the loop calls acknowledge
\* exactly once for it and never moveToDeadLetter.
C2_AckOnHandlerSuccess ==
  \A k \in Kinds :
    (iter[k].done /\ iter[k].result # NoResult) =>
      /\ iter[k].handler_calls = 1
      /\ iter[k].handler_result = "ok" =>
           (iter[k].ack_calls = 1 /\ iter[k].dlq_calls = 0)

\* C3 (as the claim has it): a reserved message whose processing ended in an
\* error is passed to moveToDeadLetter exactly once, is not acknowledged, and
\* its handler ran at most once.
C3_DeadLetterOnFailure ==
  \A k \in Kinds :
    (iter[k].done /\ iter[k].result # NoResult
       /\ iter[k].handler_result # "ok") =>
      /\ iter[k].dlq_calls = 1
      /\ iter[k].ack_calls = 0
      /\ iter[k].handler_calls <= 1

\* C4: an entry leaves a processing queue only in the step that completes the
\* acknowledge or the moveToDeadLetter of the loop that reserved it.
C4_ReservedStaysInProcessing ==
  [][\A k \in Kinds : \A e \in Range(processing[k]) :
       e \notin Range(processing'[k]) =>
         /\ pc[k] \in {"ack", "dlq"}
         /\ json_dumps(iter[k].result.data) = e]_vars

\* C4 witness: a loop reserved an entry, its iteration ended in a loop-level
\* error, the service was stopped, and the entry is still in the processing
\* queue.
C4_Witness ==
  \E k \in Kinds :
    /\ Reserved(k)
    /\ iter[k].done
    /\ pc[k] = "exited"
    /\ iter[k].raw \in Range(processing[k])

\* C5 (as the claim has it): once the consumer tasks exist, no entry that
\* start() found in a processing queue is still there without having been
\* reserved again in this run.
C5_StartupRecovery ==
  (\E k \in Kinds : pc[k] # "none") =>
    \A e \in stranded :
      \/ \A k \in Kinds : e \notin Range(processing[k])
      \/ e \in moved_since_start

\* C6 (as the claim has it): a loop that exits while it holds a reserved
\* message whose handling was in progress has called acknowledge or
\* moveToDeadLetter for it.
C6_StopCompletesInFlight ==
  \A k \in Kinds :
    (pc[k] = "exited" /\ Reserved(k) /\ ~iter[k].done) =>
      iter[k].ack_calls + iter[k].dlq_calls >= 1

\* C7: circuitOpen = true implies consecutiveFailures >= 3.
C7_OpenImpliesThreshold == circuit_open => consecutive_failures >= 3

\* C7 witness: the circuit is open after markSuccess and markFailure calls
\* have interleaved.
C7_Witness == circuit_open /\ any_success /\ fail_completed >= 2

\* C8 (as the claim has it): with no markSuccess so far and no markFailure
\* in progress, after n completed markFailure calls consecutiveFailures = n,
\* connected = false (n >= 1), and circuitOpen is true exactly when n >= 3.
C8_FailuresCounted ==
  (~any_success /\ \A w \in Workers : call[w].op # "mark_failure") =>
    /\ consecutive_failures = fail_completed
    /\ fail_completed >= 1 => ~is_connected
    /\ circuit_open <=> fail_completed >= 3

\* C9 (as the claim has it): no call is left waiting for the manager's lock
\* while its own caller holds it, a wait that no release can ever end.
C9_NoCallBlocksForever ==
  \A w \in Workers : call[w].at # "wait_inner"

\* C10 (as the claim has it): a markSuccess called with the circuit open is
\* never left waiting behind a caller that holds the lock for good, and right
\* after a markSuccess that ran to its end connected = true,
\* consecutiveFailures = 0, circuitOpen = false, circuitOpenTime is cleared,
\* shouldAttemptRequest evaluates to true and getBackoffDelay to 0.
C10_MarkSuccessResets ==
  /\ \A w \in Workers :
       (call[w].op = "mark_success" /\ circuit_open) =>
         \A v \in Workers : call[v].at # "wait_inner"
  /\ (ret.op = "mark_success" /\ ret.outcome \in {"returned", "raised"}) =>
       /\ is_connected
       /\ consecutive_failures = 0
       /\ ~circuit_open
       /\ circuit_open_time = NoTime
       /\ ShouldAttemptValue
       /\ BackoffDelay(consecutive_failures) = 0

\* C11 (as the claim has it): get_backoff_delay() returns 0 when
\* consecutiveFailures = 0 and otherwise min(initialDelay *
\* multiplier^(consecutiveFailures-1), maxBackoff); with 5, 2 and cap 300 it
\* returns 5, 10, 20, 40 after 1..4 failures, with cap 60 it returns 60 after
\* 10 failures.
C11_BackoffDelayValue ==
  ret.op = "get_backoff_delay" =>
    /\ ret.outcome = "returned"
    /\ consecutive_failures = 0 => ret.value = 0
    /\ (consecutive_failures \in 1 .. 4 /\ config.has_backoff) =>
         ret.value = <<5, 10, 20, 40>>[consecutive_failures]
    /\ (consecutive_failures = 10 /\ config = MockConfig(MaxBackoffLow)) =>
         ret.value = 60
    /\ (consecutive_failures = 10 /\ config = MockConfig(MaxBackoff)) =>
         ret.value = 300

\* C12 (as the claim has it): should_attempt_request() returns; it returns
\* true whenever circuitOpen is false, and with the circuit open it returns
\* true exactly when the time since circuitOpenTime is at least the current
\* backoff delay (false right after the third consecutive failure).
C12_ShouldAttemptRequest ==
  /\ \A w \in Workers :
       call[w].op = "should_attempt_request" => call[w].at # "wait_inner"
  /\ (ret.op = "should_attempt_request" /\ ret.outcome # "cancelled") =>
       /\ ret.outcome = "returned"
       /\ ret.value = 1 <=> ShouldAttemptValue

\* A step in which the body of a mark_failure call runs: the call enters
\* with the lock free, or leaves its wait for the lock other than by
\* cancellation.
MarkFailureApplied ==
  \/ /\ fail_started' = fail_started + 1
     /\ \A w \in Workers : call[w].at = "idle" => call'[w].at # "wait_outer"
  \/ \E w \in Workers :
       /\ call[w] = [op |-> "mark_failure", at |-> "wait_outer"]
       /\ call'[w].at # "wait_outer"
       /\ ret'.outcome # "cancelled"

\* C13: updates by concurrent callers are serialized, none is lost and none
\* is applied twice: every mark_failure whose body runs raises
\* consecutiveFailures by exactly one over the value the call before it left,
\* a mark_success leaves 0, and no other step changes the counter.
C13_SerializedUpdates ==
  [][/\ MarkFailureApplied => consecutive_failures' = consecutive_failures + 1
     /\ (ret'.op = "mark_success" /\ ret'.outcome \in {"returned", "raised"})
          => consecutive_failures' = 0
     /\ (/\ ~MarkFailureApplied
         /\ ~(ret'.op = "mark_success"
              /\ ret'.outcome \in {"returned", "raised"}))
          => consecutive_failures' = consecutive_failures]_vars

\* C13 witness: four mark_failure calls of two concurrent callers, one of
\* them applied after waiting for the lock, have raised the counter by four.
C13_Witness ==
  /\ consecutive_failures = 4
  /\ fail_started = 4
  /\ ~any_success
  /\ \A w \in Workers : call[w].at = "idle"

\* C14 (as the claim has it): a request() called while the circuit is open
\* (should_attempt_request() false) fails at once with the circuit-open
\* error instead of waiting for the manager, and has issued no HTTP attempt.
C14_CircuitOpenFailsFast ==
  \A w \in Workers :
    /\ (task[w].pc = "req_check" /\ circuit_open) => call[w].at # "wait_inner"
    /\ task[w].outcome = "circuit_open" => task[w].http_calls = 0

\* C15: the step that handles a 4xx response ends the request with the
\* client error, with no further HTTP attempt (one attempt for a request on
\* its first try), and changes no field of the Connection State and starts
\* no mark_failure.
C15_ClientErrorIsTerminal ==
  [][\A w \in Workers :
       (task[w].pc = "http" /\ task'[w].last_http = "4xx") =>
         /\ task'[w].outcome = "client_error"
         /\ task'[w].pc \notin {"http", "sleep_retry", "retry_check",
                                "get_delay", "req_mark_failure"}
         /\ task'[w].http_calls = task[w].http_calls
         /\ task'[w].http_calls = task'[w].attempt + 1
         /\ consecutive_failures' = consecutive_failures
         /\ circuit_open' = circuit_open
         /\ is_connected' = is_connected
         /\ circuit_open_time' = circuit_open_time
         /\ last_failure_time' = last_failure_time
         /\ fail_started' = fail_started]_vars

\* C15 witness: a request ended by a 4xx response to its first attempt,
\* after a failure had been recorded, with that one failure still the count.
C15_Witness ==
  \E w \in Workers :
    /\ task[w].outcome = "client_error"
    /\ task[w].pc = "idle"
    /\ task[w].http_calls = 1
    /\ consecutive_failures = 1
    /\ fail_started = 1

\* C16 (as the claim has it): a request() started with no recorded failures
\* whose attempts all end in a 5xx response or a timeout, no other caller
\* running, makes exactly retryAttempts HTTP attempts and then raises the
\* terminal error; no request makes more than retryAttempts attempts.
C16_RetriesExhausted ==
  \A w \in Workers :
    /\ task[w].http_calls <= RetryAttempts
    /\ (/\ task[w].clean
        /\ task[w].last_http \in {"5xx", "timeout"}
        /\ \A v \in Workers \ {w} : task[v] = NoTask) =>
         /\ task[w].outcome \notin {"none", "cancelled"} =>
              /\ task[w].outcome = "all_failed"
              /\ task[w].http_calls = RetryAttempts
         /\ ~(task[w].pc = "req_mark_failure" /\ call[w].at = "wait_inner")

\* C17 (as the claim has it): a request whose attempt received a 2xx
\* response returns the body to its caller, and the mark_success it made
\* left consecutiveFailures = 0 and circuitOpen = false.
C17_SuccessReturnsBody ==
  /\ \A w \in Workers :
       (task[w].last_http = "2xx"
          /\ task[w].outcome \notin {"none", "cancelled"}) =>
         task[w].outcome = "ok"
  /\ (ret.op = "mark_success" /\ ret.outcome \in {"returned", "raised"}) =>
       (consecutive_failures = 0 /\ ~circuit_open)

C19_MalformedDeadLettered ==
  (/\ iter["usage"].done
   /\ Reserved("usage")
   /\ Malformed(json_loads(iter["usage"].raw))) =>
    /\ iter["usage"].dlq_calls = 1
    /\ iter["usage"].submit_calls = 0

\* C20 (as the claim has it): the token reliablePop returns equals the
\* serialized form of the entry it moved, and acknowledge(processingQueue,
\* token) called right afterwards leaves processingQueue as it was before
\* the pop.
C20_TokenIsSerializedForm ==
  \A k \in Kinds :
    /\ pc[k] = "api_popped" => iter[k].result.message_id = iter[k].raw
    /\ (pc[k] = "api_acked" /\ iter[k].token = "message_id") =>
         processing[k] = iter[k].before

\* C20 (amended): reliablePop moves one entry from the tail of sourceQueue
\* to the head of processingQueue and returns the decoded payload with a
\* message id that is not the entry's text; acknowledge(processingQueue, s)
\* called right afterwards with s the entry's stored text removes exactly
\* that entry and leaves processingQueue as it was before the pop, and
\* called with the returned message id it removes nothing.
C20_AckWithStoredText ==
  \A k \in Kinds :
    /\ pc[k] = "api_popped" =>
         /\ processing[k] = LPush(iter[k].before, iter[k].raw)
         /\ iter[k].raw \notin Range(source[k])
         /\ iter[k].result.data = json_loads(iter[k].raw)
         /\ iter[k].result.message_id # iter[k].raw
    /\ (pc[k] = "api_acked" /\ iter[k].token = "text") =>
         processing[k] = iter[k].before
    /\ (pc[k] = "api_acked" /\ iter[k].token = "message_id") =>
         processing[k] = LPush(iter[k].before, iter[k].raw)

C20_Witness ==
  /\ pc["usage"] = "api_acked"
  /\ iter["usage"].token = "text"
  /\ iter["usage"].before # <<>>
  /\ processing["usage"] = iter["usage"].before

\* C21: a stop() that has been called on a running Consumer Service
\* eventually returns, and from its return on all three loops have exited
\* and running is false, whatever the loops were doing at the request.
C21_StopReturns ==
  /\ (stop_pc = "gathering") ~> (stop_pc = "stopped")
  /\ [](stop_pc = "stopped" =>
          (~running /\ \A k \in Kinds : pc[k] = "exited"))

\* stop() has returned; the usage loop was cancelled after an iteration that
\* ended in the error handler, the session loop while it held a message
C21_Witness ==
  /\ stop_pc = "stopped"
  /\ ~running
  /\ \A k \in Kinds : pc[k] = "exited"
  /\ iter["usage"].done
  /\ processing["session"] # <<>>

\* C22 (as the claim has it): the heartbeat loop does not terminate while
\* its service is running: every error of an iteration is caught at the
\* iteration boundary, and the loop ends only when stop() cancels it.
C22_LoopSurvivesErrors ==
  task[HeartbeatTask].pc # "dead"

\* Every request that ends in this step got a 2xx response
HttpAnswersOk ==
  \A w \in Workers :
    (task[w].pc = "http" /\ task'[w].pc # "http") =>
      task'[w].last_http = "2xx"

\* The circuit is closed, the agent is registered and a heartbeat was sent
Recovered ==
  /\ ~circuit_open
  /\ consecutive_failures = 0
  /\ task[HeartbeatTask].registered
  /\ task[HeartbeatTask].purpose = "heartbeat"
  /\ task[HeartbeatTask].outcome = "ok"

\* C23 (as the claim has it): if from some point on the remote authority
\* answers every request with 2xx (the heartbeat service is not stopped and
\* the loops are scheduled fairly), then eventually the circuit is closed
\* with consecutiveFailures = 0, the agent is REGISTERED and heartbeats are
\* sent, again and again.
C23_RecoversAfterOutage ==
  (/\ <>[][HttpAnswersOk]_vars
   /\ [](task[HeartbeatTask].pc # "exited")
   /\ [](fail_started < MaxFailures)) => []<>Recovered

\* C24 (as the claim has it): when sending a heartbeat has failed, the
\* agent is UNREGISTERED by the time the loop waits for its next iteration,
\* so that this iteration registers before it sends a heartbeat.
C24_HeartbeatFailureDemotes ==
  (/\ task[HeartbeatTask].purpose = "heartbeat"
   /\ task[HeartbeatTask].outcome \notin {"none", "ok", "cancelled"}
   /\ task[HeartbeatTask].pc = "hb_sleep") =>
    ~task[HeartbeatTask].registered

\* C25: a heartbeat request is begun only while the agent is REGISTERED and
\* never in an iteration whose registration failed; a failed registration
\* leaves the agent UNREGISTERED; the agent becomes REGISTERED only in the
\* step that ends a registration request answered with 2xx.
C25_HeartbeatOnlyWhenRegistered ==
  /\ [](task[HeartbeatTask].pc = "hb_redis" =>
          task[HeartbeatTask].registered)
  /\ []((/\ task[HeartbeatTask].purpose = "register"
          /\ task[HeartbeatTask].outcome \notin {"none", "ok", "cancelled"})
          => ~task[HeartbeatTask].registered)
  /\ [][/\ (/\ task[HeartbeatTask].purpose # "heartbeat"
             /\ task'[HeartbeatTask].purpose = "heartbeat") =>
              /\ task[HeartbeatTask].registered
              /\ task[HeartbeatTask].purpose = "register" =>
                   task[HeartbeatTask].outcome = "ok"
        /\ (/\ ~task[HeartbeatTask].registered
             /\ task'[HeartbeatTask].registered) =>
              /\ task[HeartbeatTask].purpose = "register"
              /\ task'[HeartbeatTask].last_http = "2xx"
              /\ task'[HeartbeatTask].outcome = "ok"]_vars

\* The loop sleeps after a failed registration, still unregistered
C25_Witness ==
  /\ task[HeartbeatTask].purpose = "register"
  /\ task[HeartbeatTask].outcome = "client_error"
  /\ task[HeartbeatTask].pc = "hb_sleep"
  /\ ~task[HeartbeatTask].registered
  /\ task[HeartbeatTask].http_calls = 1

\* C26 (as the claim has it): after a failed iteration (registration or
\* heartbeat) the heartbeat loop waits the backoff delay, which is at least
\* initialDelay: the get_backoff_delay() call of lines 198 and 232 returns
\* such a delay and the loop goes to sleep with it.
C26_WaitsBackoffAfterFailure ==
  [][(/\ task[HeartbeatTask].pc \in {"hb_reg_delay", "hb_exc_delay"}
      /\ task'[HeartbeatTask].pc \notin {task[HeartbeatTask].pc, "exited"})
       => (/\ task'[HeartbeatTask].pc = "hb_sleep"
           /\ ret'.op = "get_backoff_delay"
           /\ ret'.value >= InitialDelay)]_vars

\* C27 (as the claim has it): within the cache TTL every command is
\* executed at most once, however often the poll cycles deliver it and
\* whether its execution succeeded or failed.
C27_ExecutedAtMostOnce ==
  \A c \in CommandIds : cmd.executions[c] <= 1

\* C28 (as the claim has it): a Queue Client operation that hit a
\* broker-communication error ended by raising it to its caller.
C28_BrokerErrorsRaised ==
  last_op.fault \in Faults => last_op.outcome = "raised"

\* C29: a fetch of the JWT public keys made while the cache holds keys
\* fetched less than the TTL ago returns them in that step without an HTTP
\* attempt and without a call into the Connection State Manager, whose
\* state it leaves alone (also with the circuit open); a fetch enters
\* _make_request only if there are no cached keys or they have expired.
C29_JwtCacheHitBypasses ==
  [][\A w \in Workers :
       /\ (task[w].pc = "idle" /\ task'[w].purpose = "jwt"
             /\ task'[w] # task[w] /\ CacheFresh) =>
            /\ task'[w].outcome = "cached"
            /\ task'[w].pc = "idle"
            /\ task'[w].http_calls = 0
            /\ UNCHANGED <<is_connected, consecutive_failures,
                           last_failure_time, last_success_time,
                           circuit_open, circuit_open_time, lock_locked,
                           lock_waiters, call, ret, fail_started, jwt>>
       /\ (task'[w].outcome = "cached" /\ task[w].outcome # "cached") =>
            CacheFresh
       /\ (task'[w].purpose = "jwt" /\ task'[w].pc = "req_check"
             /\ task[w].pc = "idle") => ~CacheFresh]_vars

\* The keys were returned from the cache while the circuit was open
C29_Witness ==
  /\ task["w2"].purpose = "jwt"
  /\ task["w2"].outcome = "cached"
  /\ task["w2"].http_calls = 0
  /\ circuit_open
  /\ CacheFresh

\* C30 (as the claim has it): a stop() of the heartbeat service has called
\* notify_server_shutdown once if the agent was REGISTERED when it was
\* called and not at all otherwise; it returns only with the heartbeat
\* loop exited; and once called it eventually returns, also when the
\* notification fails.
C30_StopNotifiesAndCompletes ==
  /\ [](hm.stop_pc # "idle" =>
          hm.notify_calls = IF hm.was_registered THEN 1 ELSE 0)
  /\ [](hm.stop_pc = "stopped" =>
          task[HeartbeatTask].pc \in {"exited", "dead"})
  /\ [](fail_started < MaxFailures) =>
       ((hm.stop_pc # "idle") ~> (hm.stop_pc = "stopped"))

\* C31: FIFO per queue.  Messages are enqueued in the order of their ids; the
\* entry a step reserves (moves from a source queue to its processing queue)
\* was enqueued before every entry then waiting on that source queue, so no
\* message is reserved after one enqueued later on the same queue; and a
\* source queue holds its entries in the order they were enqueued.
C31_FifoPerQueue ==
  /\ [][\A k \in Kinds :
          \A e \in Range(processing'[k]) \ Range(processing[k]) :
            /\ e \in Range(source[k])
            /\ \A d \in Range(source[k]) : e.id <= d.id]_vars
  /\ [](\A k \in Kinds : \A i, j \in 1 .. Len(source[k]) :
          i < j => source[k][i].id > source[k][j].id)

\* The usage loop has reserved two messages in this run and none is left
\* waiting: the one enqueued first was reserved first
C31_Witness ==
  /\ Len(processing["usage"]) = 2
  /\ Range(processing["usage"]) \subseteq moved_since_start
  /\ processing["usage"][1].id > processing["usage"][2].id
  /\ source["usage"] = <<>>

\* The list p without its i-th entry
WithoutAt(p, i) == SubSeq(p, 1, i - 1) \o SubSeq(p, i + 1, Len(p))

\* C32: the step of moveToDeadLetter(processingQueue, token, errorInfo) that
\* pushes adds exactly one entry to the dead-letter queue, carrying the
\* original message, errorInfo and the processing-queue name, and leaves
\* the processing queues alone; the step that completes the call removes
\* exactly one occurrence of a token held by processingQueue and nothing
\* else; and from the reservation to the end of the call the message is in
\* the processing queue or in the dead-letter queue (in both between the
\* two steps).
C32_DeadLetterMove ==
  /\ [][\A k \in Kinds :
          /\ (pc[k] = "api_popped" /\ pc'[k] = "api_dlq_pushed") =>
               /\ dead_letter' =
                    <<[original_message |-> json_loads(iter[k].raw),
                       error_info |-> iter'[k].error_info,
                       processing_queue |-> k]>> \o dead_letter
               /\ processing' = processing
          /\ (pc[k] = "api_dlq_pushed" /\ pc'[k] = "api_dead") =>
               /\ dead_letter' = dead_letter
               /\ \A j \in Kinds \ {k} : processing'[j] = processing[j]
               /\ TokenOf(k, iter[k].token) \in Range(processing[k]) =>
                    \E i \in 1 .. Len(processing[k]) :
                      /\ processing[k][i] = TokenOf(k, iter[k].token)
                      /\ processing'[k] = WithoutAt(processing[k], i)]_vars
  /\ [](\A k \in Kinds :
          /\ pc[k] \in {"api_popped", "api_raised"} =>
               iter[k].raw \in Range(processing[k])
          /\ pc[k] = "api_dlq_pushed" =>
               (iter[k].raw \in Range(processing[k])
                  /\ InDeadLetter(iter[k].raw.id))
          /\ pc[k] = "api_dead" => InDeadLetter(iter[k].raw.id))

\* A call with the entry's stored text has completed on the usage queue:
\* the entry is in the dead-letter queue under that queue's name and the
\* processing queue, which held another entry, is as it was before the pop
C32_Witness ==
  /\ pc["usage"] = "api_dead"
  /\ iter["usage"].token = "text"
  /\ iter["usage"].before # <<>>
  /\ processing["usage"] = iter["usage"].before
  /\ \E i \in 1 .. Len(dead_letter) :
       dead_letter[i] = [original_message |-> json_loads(iter["usage"].raw),
                         error_info |-> iter["usage"].error_info,
                         processing_queue |-> "usage"]

\* C33 (as the claim has it): a further HTTP attempt of a request() call is
\* issued only out of the sleep that follows a re-check of
\* should_attempt_request(); the re-check made with the circuit open
\* returns (and ends the call) instead of waiting for the manager; after a
\* re-check that allowed the retry the client sleeps get_backoff_delay();
\* and while no success is recorded each delay of a call is greater than
\* the one before it in that call, or is maxBackoff.
C33_RetryRecheckAndBackoff ==
  /\ [](\A w \in Workers :
          (task[w].pc = "retry_check" /\ circuit_open) =>
            call[w].at # "wait_inner")
  /\ [][\A w \in Workers :
          /\ (task'[w].pc = "http" /\ task[w].pc # "http"
                /\ task[w].http_calls >= 1) => task[w].pc = "sleep_retry"
          /\ (task'[w].pc = "get_delay" /\ task[w].pc # "get_delay") =>
               (/\ task[w].pc = "retry_check"
                /\ ret'.op = "should_attempt_request"
                /\ ret'.value = 1)
          /\ (task[w].pc = "get_delay"
                /\ task'[w].pc \notin {"get_delay", "exited"}) =>
               (/\ task'[w].pc = "sleep_retry"
                /\ ret'.op = "get_backoff_delay"
                /\ task'[w].delay = ret'.value
                /\ ~any_success =>
                     \/ task'[w].delay > task[w].delay
                     \/ task'[w].delay = config.control_plane_max_backoff)
         ]_vars

\* The commands of the cycle's batch
Polled == Range(cmd.polled)

\* C34 (as the claim has it): in a poll cycle no command is executed or
\* reported more than once, also when its report failed, and when the
\* cycle is over every command of its batch that was not skipped has been
\* reported exactly once (so the commands after one whose report failed
\* were processed too).
C34_ReportedOncePerCycle ==
  /\ \A c \in CommandIds :
       cmd.reports[c] <= 1 /\ cmd.cycle_executions[c] <= 1
  /\ cmd.pc = "idle" =>
       \A c \in Polled \ cmd.cycle_skipped : cmd.reports[c] = 1

\* C40 (as the claim has it): the result reported for a command says
\* success exactly when its execution completed without error, whether or
\* not the commandId could be recorded in the cache.
C40_ResultReflectsExecution ==
  \A c \in CommandIds :
    cmd.reported[c] # "none" =>
      (cmd.reported[c] = "success" <=> cmd.execution[c] = "ok")

\* C35 (as the claim has it): a mark_failure whose body runs while the
\* circuit is already open leaves circuitOpen true and circuitOpenTime at
\* the time the circuit opened; of the fields of the Connection State only
\* consecutiveFailures and lastFailureTime change.
C35_OpenIsIdempotent ==
  [][(MarkFailureApplied /\ circuit_open) =>
       /\ circuit_open'
       /\ circuit_open_time' = circuit_open_time
       /\ is_connected' = is_connected
       /\ last_success_time' = last_success_time]_vars

\* The body of the mark_failure call of caller w runs in this step
MarkFailureAppliedBy(w) ==
  /\ task[w].pc = "req_mark_failure"
  /\ call[w].at \in {"idle", "wait_outer"}
  /\ call'[w].at # "wait_outer"
  /\ ret'.op = "mark_failure"
  /\ ret'.outcome # "cancelled"
  /\ consecutive_failures' # consecutive_failures

\* C36 (as the claim has it): a request() begun with the circuit open and
\* the backoff elapsed is let through to its HTTP attempt instead of being
\* left waiting for the manager; when that attempt fails with 5xx or a
\* timeout the call makes no further attempt, the failure raises
\* consecutiveFailures by one and the circuit stays open.
C36_HalfOpenProbe ==
  /\ [](\A w \in Workers :
          (task[w].half_open /\ task[w].pc = "req_check") =>
            call[w].at # "wait_inner")
  /\ [](\A w \in Workers :
          (task[w].half_open /\ task[w].last_http \in {"5xx", "timeout"}) =>
            (task[w].http_calls = 1 /\ circuit_open))
  /\ [][\A w \in Workers :
          (task[w].half_open /\ MarkFailureAppliedBy(w)) =>
            /\ consecutive_failures' = consecutive_failures + 1
            /\ circuit_open']_vars

\* The body of a mark_failure call of caller w runs in this step
CountsFailure(w) ==
  /\ consecutive_failures' # consecutive_failures
  /\ ret'.op = "mark_failure"
  /\ \/ Busy(w) /\ task[w].pc \in FailureSites
     \/ /\ call[w] = [op |-> "mark_failure", at |-> "wait_outer"]
        /\ call'[w].at # "wait_outer"

\* C37 (as the claim has it): consecutiveFailures goes up only by one at a
\* time and only in the mark_failure that _make_request calls for an HTTP
\* attempt that ended in a 5xx response or a timeout; no other path
\* (registration, heartbeat, connection recovery, a 4xx answer, a call
\* rejected by the circuit) raises it.
C37_FailuresCountHttpFailures ==
  [][consecutive_failures' > consecutive_failures =>
       /\ consecutive_failures' = consecutive_failures + 1
       /\ \E w \in Workers :
            /\ CountsFailure(w)
            /\ task[w].pc = "req_mark_failure"
            /\ task[w].last_http \in {"5xx", "timeout"}]_vars

NotificationSent ==
  /\ hm.stop_pc # "idle"
  /\ task[Stopper].purpose = "shutdown"
  /\ task[Stopper].http_calls >= 1

\* The heartbeat loop hands a heartbeat or a registration to the executor
LoopSends ==
  /\ task[HeartbeatTask].pc # "http"
  /\ task'[HeartbeatTask].pc = "http"
  /\ task'[HeartbeatTask].purpose \in {"heartbeat", "register"}

\* C39: once stop() has sent the shutdown notification, the heartbeat loop
\* sends no further heartbeat and no further registration, wherever in its
\* iteration the loop was when stop() was called
C39_NoSendAfterNotification ==
  [][NotificationSent => ~LoopSends]_vars

====
